---- MODULE Spec2Model ----
(***************************************************************************)
(* A model of the cycle runtime: Runtime (src/runtime.rs), Scheduler       *)
(* (src/scheduler.rs), JoinHandle / TaskControl (src/task.rs), the timer   *)
(* wheel with its futures (src/time.rs) and the reactor (src/reactor.rs).  *)
(*                                                                         *)
(* Threads: one client thread that calls Runtime::spawn, observes the      *)
(* JoinHandles and may call Runtime::shutdown, and num_workers worker      *)
(* threads running Runtime::worker_main.  Every mutex critical section is  *)
(* two steps (acquire, then operate and release), so that a concurrent     *)
(* try_lock can fail; every atomic access of its own is one step.          *)
(*                                                                         *)
(* The timer side has its own threads: the timer thread running            *)
(* TimerWheel::run and the executors that poll the timer futures.  Spec    *)
(* is the runtime on which no task uses a timer; TimeSpec is the timer     *)
(* wheel with its futures on a runtime that is otherwise idle.             *)
(*                                                                         *)
(* BlockSpec is the runtime with a client that also calls                  *)
(* Runtime::block_on.  ReactorSpec is the reactor (src/reactor.rs): its    *)
(* event loop thread and the callers of register and register_waker;       *)
(* WaitSpec adds the callers that await an IoFuture.                       *)
(*                                                                         *)
(* StopSpec is FairSpec with a client that does call shutdown; QuietSpec   *)
(* is the runtime in which find_work meets no contended lock; ProbeSpec    *)
(* adds a thread calling Scheduler::has_work; IdleSpec is worker_main with *)
(* its idle back-off, the answer of find_work being an input; AwaitSpec is *)
(* the timer wheel with a single awaited sleep or yield per computation.   *)
(***************************************************************************)
EXTENDS Integers, Sequences, FiniteSets, TLC

\* Bounds of the model.
MaxTasks == 3
MaxWorkers == 2
\* Bounds of the timer model: the clock runs from 0 to MaxNow, durations and
\* instants range over 0..MaxDur, MaxFutures computations use the timer
\* wheel at once, and an Interval is ticked MaxTicks times.
MaxNow == 3
MaxDur == 2
MaxFutures == 2
MaxTicks == 2
\* Bounds of the reactor model: register is called MaxTokens times, MaxCallers
\* computations use the reactor, and one poll delivers at most MaxEvents events.
MaxTokens == 2
MaxCallers == 2
MaxEvents == 2

\* const MAX_IDLE: usize = 1000 in worker_main, scaled down.
MAX_IDLE == 3

\* Thread identities stored in a lock: a worker's id, the client, or nobody.
NoOwner == -1
ClientId == -2

VARIABLES
    num_workers,      \* Scheduler.num_workers, fixed at construction
    body,             \* the computation of each task (the futures the client will spawn)
    shutdown,         \* Runtime.shutdown : AtomicBool
    tasks_spawned,    \* RuntimeStats.tasks_spawned
    tasks_completed,  \* RuntimeStats.tasks_completed
    active_tasks,     \* RuntimeStats.active_tasks
    global,           \* Scheduler.global : VecDeque<Task>
    global_lock,      \* holder of the mutex of Scheduler.global
    workers,          \* Scheduler.workers[i] : VecDeque<Task>
    workers_lock,     \* holder of the mutex of Scheduler.workers[i]
    next_worker,      \* Scheduler.next_worker : AtomicUsize
    result,           \* TaskControl.result : Option<Result<T, JoinError>>
    completed,        \* TaskControl.completed : AtomicBool
    wpc,              \* position of each worker thread in worker_main
    wtask,            \* the task a worker holds (0: none)
    wi,               \* loop index i of steal_work in each worker
    cpc,              \* position of the client thread
    ctask,            \* the task the client is spawning (0: none)
    ctarget,          \* worker_id chosen by schedule
    ran,              \* history: how many times each task closure was invoked
    writes,           \* history: how many times complete() stored an outcome
    wfrom,            \* history: which step of find_work gave the worker its task
    taken,            \* history: try_result has returned Some(outcome) of the task
    now,              \* the clock read by Instant::now()
    timers,           \* TimerWheel.timers : BinaryHeap<Reverse<Timer>>
    timers_lock,      \* holder of the mutex of TimerWheel.timers
    next_id,          \* TimerWheel.next_id : AtomicU64
    dpc,              \* position of the timer thread in TimerWheel::run
    dnow,             \* "now" of the current pass of TimerWheel::run
    expired,          \* "expired_timers" of the current pass, not yet woken
    prog,             \* the computation each executor runs (which timer future it awaits)
    epc,              \* position of each executor in block_on and in the poll it runs
    eid,              \* the id add_timer has fetched for the executor's call
    ldeadline,        \* SleepFuture / SleepUntilFuture .deadline
    ltimer,           \* SleepFuture / SleepUntilFuture .timer_id (0: None)
    yielded,          \* YieldFuture.yielded
    wdeadline,        \* TimeoutFuture.deadline
    wtimer,           \* TimeoutFuture.timer_id (0: None)
    next_tick,        \* Interval.next_tick
    unparked,         \* the notification flag of the executor's waker
    out,              \* what the awaited future resolved to ("none": not yet)
    rtime,            \* history: the clock when the future resolved
    lpolls,           \* history: what each poll of the sleep / yield future returned
    ticks,            \* history: the instants Interval::tick has returned
    born,             \* history: the clock when the future was created
    woken,            \* history: the entries woken in the current pass, in order
    fired,            \* history: the ids of the entries the timer thread has woken
    bo,               \* the task Runtime::block_on is waiting for (0: the client is not in block_on)
    bout,             \* history: what block_on returned for each task ("none": it has not returned)
    hpc,              \* position of the thread that calls Scheduler::has_work
    hi,               \* the index of the worker queue has_work is looking at
    hret,             \* what the last call of has_work returned ("none": no call has returned)
    ipc,              \* worker_main with its back-off: position of each worker in the loop
    idle_count,       \* worker_main: the local idle_count of each worker
    yields,           \* history: the yield_now calls of a worker since its last task or sleep
    next_token,       \* Reactor.next_token : AtomicUsize
    registry,         \* the tokens registered with the OS poller (mio Registry)
    wakers,           \* Reactor.wakers : HashMap<Token, TaskWaker>, as a set of entries
    wakers_lock,      \* holder of the mutex of Reactor.wakers
    rshutdown,        \* Reactor.shutdown : AtomicBool
    rpc,              \* position of the reactor thread in run_event_loop
    events,           \* the events of the current poll that are not processed yet
    rwaker,           \* the waker remove(&token) returned (0: None)
    kpc,              \* position of each caller of the reactor
    ktoken,           \* the token of the caller's current call
    kwoken,           \* the notification flag of the caller's waker
    kio,              \* the token of the IoFuture the caller awaits (0: none)
    registered,       \* IoFuture.registered of that future
    returned,         \* history: the tokens register has returned, in order of return
    lastreg,          \* history: the waker of the last register_waker on each token (0: none)
    dropped,          \* history: the tokens for which an event found no waker
    rwoken,           \* history: the wakers invoked for the events of the current poll
    rafter            \* history: how many polls have returned since the shutdown flag was set

stateRuntime == <<num_workers, body, shutdown, tasks_spawned, tasks_completed, active_tasks,
                  global, global_lock, workers, workers_lock, next_worker, result, completed,
                  wpc, wtask, wi, cpc, ctask, ctarget, ran, writes, wfrom, taken, bo, bout,
                  hpc, hi, hret, ipc, idle_count, yields>>
stateWheel == <<timers, timers_lock, next_id>>
stateDriver == <<dpc, dnow, expired, woken, fired>>
stateFuture == <<ldeadline, ltimer, yielded, wdeadline, wtimer, next_tick>>
stateExec == <<prog, epc, eid, unparked, out>>
stateExecHist == <<rtime, lpolls, ticks, born>>
stateTime == <<now, stateWheel, stateDriver, stateFuture, stateExec, stateExecHist>>

stateReactor == <<next_token, registry, wakers, wakers_lock, rshutdown, rpc, events, rwaker>>
stateCaller == <<kpc, ktoken, kwoken>>
stateWait == <<kio, registered>>
stateReactorHist == <<returned, lastreg, dropped, rwoken, rafter>>
stateIo == <<stateReactor, stateCaller, stateWait, stateReactorHist>>

vars == <<stateRuntime, stateTime, stateIo>>

Tasks == 1..MaxTasks
Futures == 1..MaxFutures
Tokens == 1..MaxTokens
Callers == 1..MaxCallers
WorkerIds == 0..(num_workers - 1)

\* The worker threads that exist: start_workers spawns 0..num_workers-1.
Thread(w) == w \in WorkerIds

\* The computations a task can be: it returns, it panics, or it awaits the
\* JoinHandle of an earlier task and then returns.
Bodies(t) ==
    {[kind |-> "ret", on |-> 0], [kind |-> "panic", on |-> 0]}
        \cup {[kind |-> "await", on |-> j] : j \in 1..(t - 1)}

\* A JoinHandle is not Clone: at most one task owns (awaits) a given handle.
Awaiters(b, j) == {t \in Tasks : b[t].kind = "await" /\ b[t].on = j}

stateA == <<num_workers, body>>
stateStats == <<tasks_spawned, tasks_completed, active_tasks>>
stateQueues == <<global, workers>>
stateLocks == <<global_lock, workers_lock>>
stateControl == <<result, completed>>
stateWorker == <<wpc, wtask, wi>>
stateClient == <<cpc, ctask, ctarget>>
stateHist == <<ran, writes, wfrom, taken>>
stateBlock == <<bo, bout>>
stateProbe == <<hpc, hi, hret>>
stateIdle == <<ipc, idle_count, yields>>

\* What no step of a worker, of spawn, of try_result or of shutdown touches.
stateOff == <<stateTime, stateIo, stateBlock, stateProbe, stateIdle>>

\* The computations an executor can run: one await of a timer future.
\* timeout wraps an async block that awaits sleep(d2) or yield_now().
NoProg == [kind |-> "none", d |-> 0, inner |-> "none", d2 |-> 0]
Programs ==
    {[kind |-> k, d |-> d, inner |-> "none", d2 |-> 0] :
        k \in {"sleep", "sleep_until"}, d \in 0..MaxDur}
    \cup {[kind |-> "timeout", d |-> d, inner |-> "sleep", d2 |-> d2] :
            d \in 1..MaxDur, d2 \in 1..MaxDur}
    \cup {[kind |-> "timeout", d |-> d, inner |-> "yield", d2 |-> 0] : d \in 1..MaxDur}
    \cup {[kind |-> "interval", d |-> 1, inner |-> "none", d2 |-> 0],
          [kind |-> "yield", d |-> 0, inner |-> "none", d2 |-> 0]}

\* Runtime::with_workers: the state after construction, before any spawn.
InitRuntime ==
    /\ num_workers \in 1..MaxWorkers
    /\ body \in {b \in [Tasks -> UNION {Bodies(t) : t \in Tasks}] :
                    /\ \A t \in Tasks : b[t] \in Bodies(t)
                    /\ \A j \in Tasks : Cardinality(Awaiters(b, j)) <= 1}
    /\ shutdown = FALSE
    /\ tasks_spawned = 0
    /\ tasks_completed = 0
    /\ active_tasks = 0
    /\ global = <<>>
    /\ global_lock = NoOwner
    /\ workers = [i \in WorkerIds |-> <<>>]
    /\ workers_lock = [i \in WorkerIds |-> NoOwner]
    /\ next_worker = 0
    /\ result = [t \in Tasks |-> "None"]
    /\ completed = [t \in Tasks |-> FALSE]
    /\ wpc = [i \in WorkerIds |-> "loop"]
    /\ wtask = [i \in WorkerIds |-> 0]
    /\ wi = [i \in WorkerIds |-> 0]
    /\ cpc = "idle"
    /\ ctask = 0
    /\ ctarget = 0
    /\ ran = [t \in Tasks |-> 0]
    /\ writes = [t \in Tasks |-> 0]
    /\ wfrom = [i \in WorkerIds |-> "none"]
    /\ taken = [t \in Tasks |-> FALSE]
    /\ bo = 0
    /\ bout = [t \in Tasks |-> "none"]
    /\ hpc = "idle"
    /\ hi = 0
    /\ hret = "none"
    /\ ipc = [i \in WorkerIds |-> "test"]
    /\ idle_count = [i \in WorkerIds |-> 0]
    /\ yields = [i \in WorkerIds |-> 0]

\* The timer side at start: the clock at 0, TimerWheel::new() (an empty heap,
\* next_id = 1), no future created yet.  p is the computation of each
\* executor, pc its position, dp the position of the timer thread.
InitTimer(p, pc, dp) ==
    /\ now = 0
    /\ timers = {}
    /\ timers_lock = NoOwner
    /\ next_id = 1
    /\ dpc = dp
    /\ dnow = 0
    /\ expired = <<>>
    /\ woken = <<>>
    /\ fired = {}
    /\ prog = p
    /\ epc = [f \in Futures |-> pc]
    /\ eid = [f \in Futures |-> 0]
    /\ ldeadline = [f \in Futures |-> 0]
    /\ ltimer = [f \in Futures |-> 0]
    /\ yielded = [f \in Futures |-> FALSE]
    /\ wdeadline = [f \in Futures |-> 0]
    /\ wtimer = [f \in Futures |-> 0]
    /\ next_tick = [f \in Futures |-> 0]
    /\ unparked = [f \in Futures |-> FALSE]
    /\ out = [f \in Futures |-> "none"]
    /\ rtime = [f \in Futures |-> 0]
    /\ lpolls = [f \in Futures |-> <<>>]
    /\ ticks = [f \in Futures |-> <<>>]
    /\ born = [f \in Futures |-> 0]

\* The reactor at start (Reactor::new): next_token = 1, an empty waker map,
\* the flag false.  rp is the position of the reactor thread, kp that of
\* each caller.
InitReactor(rp, kp) ==
    /\ next_token = 1
    /\ registry = {}
    /\ wakers = {}
    /\ wakers_lock = NoOwner
    /\ rshutdown = FALSE
    /\ rpc = rp
    /\ events = <<>>
    /\ rwaker = 0
    /\ kpc = [c \in Callers |-> kp]
    /\ ktoken = [c \in Callers |-> 0]
    /\ kwoken = [c \in Callers |-> FALSE]
    /\ kio = [c \in Callers |-> 0]
    /\ registered = [c \in Callers |-> FALSE]
    /\ returned = <<>>
    /\ lastreg = [t \in Tokens |-> 0]
    /\ dropped = {}
    /\ rwoken = <<>>
    /\ rafter = 0

\* A runtime on which no task uses src/time.rs: TIMER_WHEEL is Lazy, so the
\* wheel is never built and its thread never started.
Init ==
    /\ InitRuntime
    /\ InitTimer([f \in Futures |-> NoProg], "off", "off")
    /\ InitReactor("off", "off")

(***************************************************************************)
(* Queue helpers (VecDeque).                                               *)
(***************************************************************************)
\* Mutant: the task is put at the front of the queue.
push_front(q, t) == <<t>> \o q

push_back(q, t) == Append(q, t)
\* Mutant: the front task is returned but left in the queue.
pop_front_keeps(q) == q

pop_front(q) == Tail(q)
pop_back(q) == SubSeq(q, 1, Len(q) - 1)
\* Mutant: the newest task is returned instead of the oldest.
front_newest(q) == q[Len(q)]

front(q) == q[1]
back(q) == q[Len(q)]

\* Mutant: the steal loop does not skip the worker's own queue.
NextVictim_self(w, i) == IF i >= num_workers THEN num_workers ELSE i

\* Mutant: the steal loop inspects no queue.
NextVictim_none(w, i) == num_workers

\* steal_work's "for i in 0..num_workers { if i == worker_id { continue; } ... }":
\* the first index at or after i that the loop body acts on, num_workers if none.
NextVictim(w, i) ==
    LET rest == {j \in i..(num_workers - 1) : j # w}
    IN IF rest = {} THEN num_workers ELSE CHOOSE j \in rest : \A k \in rest : j <= k

(***************************************************************************)
(* Worker thread: Runtime::worker_main, Scheduler::find_work, steal_work.  *)
(***************************************************************************)

\* find_work returned Some(task) to worker w and worker_main invokes it: task().
Invoke(w, t, from) ==
    /\ wtask' = [wtask EXCEPT ![w] = t]
    /\ wpc' = [wpc EXCEPT ![w] = "run"]
    /\ ran' = [ran EXCEPT ![t] = @ + 1]
    /\ wfrom' = [wfrom EXCEPT ![w] = from]

\* find_work moves on to steal_work, scanning from index i; when the scan is
\* over find_work returns None and worker_main takes its idle branch and loops.
\* The idle branch (idle_count, thread::yield_now, thread::sleep) touches only
\* the worker's own local counter and always falls through to the loop test;
\* it is modelled step by step in IdleSpec.
Scan(w, i) ==
    LET j == NextVictim(w, i)
    IN /\ wi' = [wi EXCEPT ![w] = IF j >= num_workers THEN 0 ELSE j]
       /\ wpc' = [wpc EXCEPT ![w] = IF j >= num_workers THEN "loop" ELSE "steal"]

\* Mutant: the loop never looks at the shutdown flag.
WorkerLoop_blind(w) ==
    /\ Thread(w)
    /\ wpc[w] = "loop"
    /\ wpc' = [wpc EXCEPT ![w] = "fw_local"]
    /\ UNCHANGED <<stateOff, stateA, shutdown, stateStats, stateQueues, stateLocks, next_worker,
                   stateControl, wtask, wi, stateClient, stateHist>>

\* while !shutdown.load(Acquire)
WorkerLoop(w) ==
    /\ Thread(w)
    /\ wpc[w] = "loop"
    /\ wpc' = [wpc EXCEPT ![w] = IF shutdown THEN "exited" ELSE "fw_local"]
    /\ UNCHANGED <<stateOff, stateA, shutdown, stateStats, stateQueues, stateLocks, next_worker,
                   stateControl, wtask, wi, stateClient, stateHist>>

\* 1. self.workers[worker_id].try_lock()
FwLocalTry(w) ==
    /\ Thread(w)
    /\ wpc[w] = "fw_local"
    /\ IF workers_lock[w] = NoOwner
       THEN /\ workers_lock' = [workers_lock EXCEPT ![w] = w]
            /\ wpc' = [wpc EXCEPT ![w] = "fw_local_cs"]
       ELSE /\ wpc' = [wpc EXCEPT ![w] = "fw_global"]
            /\ UNCHANGED workers_lock
    /\ UNCHANGED <<stateOff, stateA, shutdown, stateStats, stateQueues, global_lock, next_worker,
                   stateControl, wtask, wi, stateClient, stateHist>>

\* Mutant: the owner takes the newest task of its own queue.
FwLocalPop_lifo(w) ==
    /\ Thread(w)
    /\ wpc[w] = "fw_local_cs"
    /\ workers_lock' = [workers_lock EXCEPT ![w] = NoOwner]
    /\ IF workers[w] # <<>>
       THEN /\ workers' = [workers EXCEPT ![w] = pop_back(@)]
            /\ Invoke(w, back(workers[w]), "local")
            /\ UNCHANGED <<writes, taken>>
       ELSE /\ wpc' = [wpc EXCEPT ![w] = "fw_global"]
            /\ UNCHANGED <<workers, wtask, stateHist>>
    /\ UNCHANGED <<stateOff, stateA, shutdown, stateStats, global, global_lock, next_worker,
                   stateControl, wi, stateClient>>

\* queue.pop_front() under the local lock; the guard is dropped on both paths.
FwLocalPop(w) ==
    /\ Thread(w)
    /\ wpc[w] = "fw_local_cs"
    /\ workers_lock' = [workers_lock EXCEPT ![w] = NoOwner]
    /\ IF workers[w] # <<>>
       THEN /\ workers' = [workers EXCEPT ![w] = pop_front(@)]
            /\ Invoke(w, front(workers[w]), "local")
            /\ UNCHANGED <<writes, taken>>
       ELSE /\ wpc' = [wpc EXCEPT ![w] = "fw_global"]
            /\ UNCHANGED <<workers, wtask, stateHist>>
    /\ UNCHANGED <<stateOff, stateA, shutdown, stateStats, global, global_lock, next_worker,
                   stateControl, wi, stateClient>>

\* 2. self.global.try_lock()
FwGlobalTry(w) ==
    /\ Thread(w)
    /\ wpc[w] = "fw_global"
    /\ IF global_lock = NoOwner
       THEN /\ global_lock' = w
            /\ wpc' = [wpc EXCEPT ![w] = "fw_global_cs"]
            /\ UNCHANGED wi
       ELSE /\ Scan(w, 0)
            /\ UNCHANGED global_lock
    /\ UNCHANGED <<stateOff, stateA, shutdown, stateStats, stateQueues, workers_lock, next_worker,
                   stateControl, wtask, stateClient, stateHist>>

\* Mutant: the global queue is taken for empty without a look at it.
FwGlobalPop_blind(w) ==
    /\ Thread(w)
    /\ wpc[w] = "fw_global_cs"
    /\ global_lock' = NoOwner
    /\ Scan(w, 0)
    /\ UNCHANGED <<global, wtask, stateHist>>
    /\ UNCHANGED <<stateOff, stateA, shutdown, stateStats, workers, workers_lock, next_worker,
                   stateControl, stateClient>>

\* queue.pop_front() under the global lock
FwGlobalPop(w) ==
    /\ Thread(w)
    /\ wpc[w] = "fw_global_cs"
    /\ global_lock' = NoOwner
    /\ IF global # <<>>
       THEN /\ global' = pop_front(global)
            /\ Invoke(w, front(global), "global")
            /\ UNCHANGED <<writes, taken, wi>>
       ELSE /\ Scan(w, 0)
            /\ UNCHANGED <<global, wtask, stateHist>>
    /\ UNCHANGED <<stateOff, stateA, shutdown, stateStats, workers, workers_lock, next_worker,
                   stateControl, stateClient>>

\* 3. steal_work: self.workers[i].try_lock() for the victim i = wi[w]
StealTry(w) ==
    /\ Thread(w)
    /\ wpc[w] = "steal"
    /\ IF workers_lock[wi[w]] = NoOwner
       THEN /\ workers_lock' = [workers_lock EXCEPT ![wi[w]] = w]
            /\ wpc' = [wpc EXCEPT ![w] = "steal_cs"]
            /\ UNCHANGED wi
       ELSE /\ Scan(w, wi[w] + 1)
            /\ UNCHANGED workers_lock
    /\ UNCHANGED <<stateOff, stateA, shutdown, stateStats, stateQueues, global_lock, next_worker,
                   stateControl, wtask, stateClient, stateHist>>

\* queue.pop_back() under the victim's lock
StealPop(w) ==
    /\ Thread(w)
    /\ wpc[w] = "steal_cs"
    /\ workers_lock' = [workers_lock EXCEPT ![wi[w]] = NoOwner]
    /\ IF workers[wi[w]] # <<>>
       THEN /\ workers' = [workers EXCEPT ![wi[w]] = pop_back(@)]
            /\ Invoke(w, back(workers[wi[w]]), "steal")
            /\ wi' = [wi EXCEPT ![w] = 0]
            /\ UNCHANGED <<writes, taken>>
       ELSE /\ Scan(w, wi[w] + 1)
            /\ UNCHANGED <<workers, wtask, stateHist>>
    /\ UNCHANGED <<stateOff, stateA, shutdown, stateStats, global, global_lock, next_worker,
                   stateControl, stateClient>>

steal_work(w) == StealTry(w) \/ StealPop(w)

find_work(w) ==
    \/ FwLocalTry(w)
    \/ FwLocalPop(w)
    \/ FwGlobalTry(w)
    \/ FwGlobalPop(w)
    \/ steal_work(w)

(***************************************************************************)
(* JoinHandle and TaskControl (src/task.rs).                               *)
(***************************************************************************)

\* JoinHandle::is_finished: completed.load(Acquire)
is_finished(t) == completed[t]

\* Mutant: the outcome is read without looking at the completed flag.
try_result_unchecked(t) == result[t]

\* JoinHandle::try_result, the value returned: the stored outcome when the
\* completed flag is set, None otherwise.
try_result(t) == IF completed[t] THEN result[t] ELSE "None"

\* Mutant: taking the outcome also resets the completed flag.
take_resets(t) ==
    /\ result' = IF completed[t] THEN [result EXCEPT ![t] = "None"] ELSE result
    /\ completed' = IF completed[t] THEN [completed EXCEPT ![t] = FALSE] ELSE completed

\* Mutant: the outcome is read and left in the slot.
take_peeks(t) == UNCHANGED <<result, completed>>

\* JoinHandle::try_result, the effect: when the flag is set,
\* result.lock().unwrap().take() leaves None in the slot; the flag is only read.
take(t) ==
    /\ result' = IF completed[t] THEN [result EXCEPT ![t] = "None"] ELSE result
    /\ UNCHANGED completed

\* impl Future for JoinHandle: poll is try_result; the Context is not used.
poll(t) == IF try_result(t) # "None" THEN "Ready" ELSE "Pending"

(***************************************************************************)
(* The task closure built by Runtime::spawn, run by a worker: task().      *)
(***************************************************************************)

\* futures_executor::block_on(future) polls the computation.  A computation
\* that returns is Ready; one that panics unwinds through the closure and
\* worker_main, which ends the worker thread; one that awaits a JoinHandle
\* polls it.  On Pending block_on parks the thread until the waker of its
\* Context is invoked: JoinHandle::poll drops the Context, so nothing holds
\* that waker and the thread stays parked.
block_on(w) ==
    LET t == wtask[w]
        b == body[t]
    IN /\ Thread(w)
       /\ wpc[w] = "run"
       /\ CASE b.kind = "ret" ->
                 /\ wpc' = [wpc EXCEPT ![w] = "complete_store"]
                 /\ UNCHANGED <<wtask, wfrom, stateControl, taken>>
            [] b.kind = "panic" ->
                 /\ wpc' = [wpc EXCEPT ![w] = "dead"]
                 /\ wtask' = [wtask EXCEPT ![w] = 0]
                 /\ wfrom' = [wfrom EXCEPT ![w] = "none"]
                 /\ UNCHANGED <<stateControl, taken>>
            [] b.kind = "await" ->
                 /\ wpc' = [wpc EXCEPT ![w] =
                              IF poll(b.on) = "Ready" THEN "complete_store" ELSE "parked"]
                 /\ take(b.on)
                 /\ taken' = [taken EXCEPT ![b.on] = @ \/ try_result(b.on) # "None"]
                 /\ UNCHANGED <<wtask, wfrom>>
       /\ UNCHANGED <<stateOff, stateA, shutdown, stateStats, stateQueues, stateLocks, next_worker,
                      wi, stateClient, ran, writes>>

\* Mutant: the completed flag is set before the outcome is stored.
complete_flag_first(w) ==
    LET t == wtask[w]
    IN /\ Thread(w)
       /\ \/ /\ wpc[w] = "complete_store"
             /\ completed' = [completed EXCEPT ![t] = TRUE]
             /\ wpc' = [wpc EXCEPT ![w] = "complete_flag"]
             /\ UNCHANGED <<result, writes>>
          \/ /\ wpc[w] = "complete_flag"
             /\ result' = [result EXCEPT ![t] = "Ok"]
             /\ writes' = [writes EXCEPT ![t] = @ + 1]
             /\ wpc' = [wpc EXCEPT ![w] = "stat_completed"]
             /\ UNCHANGED completed
       /\ UNCHANGED <<stateOff, stateA, shutdown, stateStats, stateQueues, stateLocks, next_worker,
                      wtask, wi, stateClient, ran, wfrom, taken>>

\* TaskControl::complete(Ok(result)): the outcome is stored under the result
\* mutex, then completed.store(true, Release).
complete(w) ==
    LET t == wtask[w]
    IN /\ Thread(w)
       /\ \/ /\ wpc[w] = "complete_store"
             /\ result' = [result EXCEPT ![t] = "Ok"]
             /\ writes' = [writes EXCEPT ![t] = @ + 1]
             /\ wpc' = [wpc EXCEPT ![w] = "complete_flag"]
             /\ UNCHANGED completed
          \/ /\ wpc[w] = "complete_flag"
             /\ completed' = [completed EXCEPT ![t] = TRUE]
             /\ wpc' = [wpc EXCEPT ![w] = "stat_completed"]
             /\ UNCHANGED <<result, writes>>
       /\ UNCHANGED <<stateOff, stateA, shutdown, stateStats, stateQueues, stateLocks, next_worker,
                      wtask, wi, stateClient, ran, wfrom, taken>>

\* stats_clone.tasks_completed.fetch_add(1)
StatCompleted(w) ==
    /\ Thread(w)
    /\ wpc[w] = "stat_completed"
    /\ tasks_completed' = tasks_completed + 1
    /\ wpc' = [wpc EXCEPT ![w] = "stat_active"]
    /\ UNCHANGED <<stateOff, stateA, shutdown, tasks_spawned, active_tasks, stateQueues, stateLocks,
                   next_worker, stateControl, wtask, wi, stateClient, stateHist>>

\* stats_clone.active_tasks.fetch_sub(1); the closure returns to worker_main.
StatActive(w) ==
    /\ Thread(w)
    /\ wpc[w] = "stat_active"
    /\ active_tasks' = active_tasks - 1
    /\ wpc' = [wpc EXCEPT ![w] = "loop"]
    /\ wtask' = [wtask EXCEPT ![w] = 0]
    /\ wfrom' = [wfrom EXCEPT ![w] = "none"]
    /\ UNCHANGED <<stateOff, stateA, shutdown, tasks_spawned, tasks_completed, stateQueues, stateLocks,
                   next_worker, stateControl, wi, stateClient, ran, writes, taken>>

task(w) == block_on(w) \/ complete(w) \/ StatCompleted(w) \/ StatActive(w)

worker_main(w) == WorkerLoop(w) \/ find_work(w) \/ task(w)

(***************************************************************************)
(* Client thread: Runtime::spawn, Scheduler::schedule, the JoinHandle      *)
(* methods and Runtime::shutdown.                                          *)
(***************************************************************************)

\* The JoinHandle of task t has been returned by spawn.
Spawned(t) == t <= tasks_spawned /\ ctask # t

\* The client still owns the handle (it was not moved into an awaiting task).
ClientOwns(t) == Spawned(t) /\ Awaiters(body, t) = {}

\* self.stats.tasks_spawned.fetch_add(1)
SpawnCount(c) ==
    /\ cpc = "idle"
    /\ tasks_spawned < MaxTasks
    /\ tasks_spawned' = tasks_spawned + 1
    /\ ctask' = tasks_spawned + 1
    /\ cpc' = "sp_active"
    /\ UNCHANGED <<stateOff, stateA, shutdown, tasks_completed, active_tasks, stateQueues, stateLocks,
                   next_worker, stateControl, stateWorker, ctarget, stateHist>>

\* Mutant: spawn leaves active_tasks alone.
SpawnActive_skip(c) ==
    /\ cpc = "sp_active"
    /\ cpc' = "schedule"
    /\ UNCHANGED <<stateOff, stateA, shutdown, stateStats, stateQueues, stateLocks,
                   next_worker, stateControl, stateWorker, ctask, ctarget, stateHist>>

\* self.stats.active_tasks.fetch_add(1); TaskControl::new(); JoinHandle::new()
SpawnActive(c) ==
    /\ cpc = "sp_active"
    /\ active_tasks' = active_tasks + 1
    /\ cpc' = "schedule"
    /\ UNCHANGED <<stateOff, stateA, shutdown, tasks_spawned, tasks_completed, stateQueues, stateLocks,
                   next_worker, stateControl, stateWorker, ctask, ctarget, stateHist>>

\* schedule: worker_id = next_worker.fetch_add(1) % num_workers, then
\* self.workers[worker_id].try_lock()
ScheduleTry(c) ==
    LET worker_id == next_worker % num_workers
    IN /\ cpc = "schedule"
       /\ next_worker' = next_worker + 1
       /\ ctarget' = worker_id
       /\ IF workers_lock[worker_id] = NoOwner
          THEN /\ workers_lock' = [workers_lock EXCEPT ![worker_id] = c]
               /\ cpc' = "sc_local_cs"
          ELSE /\ cpc' = "sc_global"
               /\ UNCHANGED workers_lock
       /\ UNCHANGED <<stateOff, stateA, shutdown, stateStats, stateQueues, global_lock,
                      stateControl, stateWorker, ctask, stateHist>>

\* queue.push_back(task) under the local lock; spawn returns the handle.
SchedulePushLocal(c) ==
    /\ cpc = "sc_local_cs"
    /\ workers' = [workers EXCEPT ![ctarget] = push_back(@, ctask)]
    /\ workers_lock' = [workers_lock EXCEPT ![ctarget] = NoOwner]
    /\ cpc' = "idle"
    /\ ctask' = 0
    /\ UNCHANGED <<stateOff, stateA, shutdown, stateStats, global, global_lock, next_worker,
                   stateControl, stateWorker, ctarget, stateHist>>

\* Fallback: self.global.lock().unwrap(), a blocking acquire
ScheduleLockGlobal(c) ==
    /\ cpc = "sc_global"
    /\ global_lock = NoOwner
    /\ global_lock' = c
    /\ cpc' = "sc_global_cs"
    /\ UNCHANGED <<stateOff, stateA, shutdown, stateStats, stateQueues, workers_lock, next_worker,
                   stateControl, stateWorker, ctask, ctarget, stateHist>>

\* .push_back(task) under the global lock; spawn returns the handle.
SchedulePushGlobal(c) ==
    /\ cpc = "sc_global_cs"
    /\ global' = push_back(global, ctask)
    /\ global_lock' = NoOwner
    /\ cpc' = "idle"
    /\ ctask' = 0
    /\ UNCHANGED <<stateOff, stateA, shutdown, stateStats, workers, workers_lock, next_worker,
                   stateControl, stateWorker, ctarget, stateHist>>

schedule(c) ==
    \/ ScheduleTry(c)
    \/ SchedulePushLocal(c)
    \/ ScheduleLockGlobal(c)
    \/ SchedulePushGlobal(c)

spawn(c) == SpawnCount(c) \/ SpawnActive(c) \/ schedule(c)

\* The client calls handle.try_result() on a handle it owns.
TryResult(t) ==
    /\ ClientOwns(t)
    /\ take(t)
    /\ taken' = [taken EXCEPT ![t] = @ \/ try_result(t) # "None"]
    /\ UNCHANGED <<stateOff, stateA, shutdown, stateStats, stateQueues, stateLocks, next_worker,
                   stateWorker, stateClient, ran, writes, wfrom>>

\* Mutant: shutdown returns without joining the worker threads.
Shutdown_nojoin(c) ==
    \/ /\ cpc = "idle"
       /\ shutdown' = TRUE
       /\ cpc' = "join"
       /\ UNCHANGED <<stateOff, stateA, stateStats, stateQueues, stateLocks, next_worker,
                      stateControl, stateWorker, ctask, ctarget, stateHist>>
    \/ /\ cpc = "join"
       /\ cpc' = "down"
       /\ UNCHANGED <<stateOff, stateA, shutdown, stateStats, stateQueues, stateLocks, next_worker,
                      stateControl, stateWorker, ctask, ctarget, stateHist>>

\* Runtime::shutdown(self): the flag is stored, then every worker is joined.
Shutdown(c) ==
    \/ /\ cpc = "idle"
       /\ shutdown' = TRUE
       /\ cpc' = "join"
       /\ UNCHANGED <<stateOff, stateA, stateStats, stateQueues, stateLocks, next_worker,
                      stateControl, stateWorker, ctask, ctarget, stateHist>>
    \/ /\ cpc = "join"
       /\ \A w \in WorkerIds : wpc[w] \in {"exited", "dead"}
       /\ cpc' = "down"
       /\ UNCHANGED <<stateOff, stateA, shutdown, stateStats, stateQueues, stateLocks, next_worker,
                      stateControl, stateWorker, ctask, ctarget, stateHist>>

Next ==
    \/ \E w \in 0..(MaxWorkers - 1) : worker_main(w)
    \/ spawn(ClientId)
    \/ \E t \in Tasks : TryResult(t)
    \/ Shutdown(ClientId)

Spec == Init /\ [][Next]_vars

\* Scheduling of the threads by the operating system: a thread that can take
\* a step eventually takes one.  The client spawns its MaxTasks tasks unless
\* it shuts the runtime down first; it is not obliged to call try_result or
\* shutdown.

FairSpec ==
    /\ Spec
    /\ \A w \in 0..(MaxWorkers - 1) : WF_vars(worker_main(w))
    /\ WF_vars(spawn(ClientId))

\* A runtime of at least two workers whose tasks all return normally.
AllBodiesReturn == \A t \in Tasks : body[t].kind = "ret"
InitBusy == Init /\ num_workers >= 2 /\ AllBodiesReturn

\* On such a runtime the threads are scheduled as above, except that the
\* computation running on worker 0 may take forever (a long-running task):
\* there is no fairness for the block_on step of worker 0.
BusySpec ==
    /\ InitBusy /\ [][Next]_vars
    /\ \A w \in 0..(MaxWorkers - 1) :
          /\ WF_vars(WorkerLoop(w) \/ find_work(w))
          /\ WF_vars(complete(w) \/ StatCompleted(w) \/ StatActive(w))
    /\ \A w \in 1..(MaxWorkers - 1) : WF_vars(block_on(w))
    /\ WF_vars(spawn(ClientId))

(***************************************************************************)
(* Runtime::block_on (src/runtime.rs): the client spawns the computation   *)
(* and spins on the handle's is_finished until it is true.                 *)
(***************************************************************************)

\* block_on: "let handle = self.spawn(future)", the first step of that spawn.
\* The handle stays a local of block_on: no task awaits it.
BlockOnSpawn(c) ==
    /\ cpc = "idle"
    /\ bo = 0
    /\ tasks_spawned < MaxTasks
    /\ Awaiters(body, tasks_spawned + 1) = {}
    /\ tasks_spawned' = tasks_spawned + 1
    /\ ctask' = tasks_spawned + 1
    /\ bo' = tasks_spawned + 1
    /\ cpc' = "sp_active"
    /\ UNCHANGED <<stateTime, stateIo, stateProbe, stateIdle, bout, stateA, shutdown, tasks_completed, active_tasks,
                   stateQueues, stateLocks, next_worker, stateControl, stateWorker, ctarget,
                   stateHist>>

\* block_on: "while !handle.is_finished() { thread::yield_now(); }"; an
\* iteration that finds the flag false changes nothing.
BlockOnWait(c) ==
    /\ cpc = "idle"
    /\ bo # 0
    /\ is_finished(bo)
    /\ cpc' = "bo_result"
    /\ UNCHANGED <<stateOff, stateA, shutdown, stateStats, stateQueues, stateLocks, next_worker,
                   stateControl, stateWorker, ctask, ctarget, stateHist>>

\* block_on: handle.try_result().unwrap().expect("Task failed")
BlockOnResult(c) ==
    /\ cpc = "bo_result"
    /\ take(bo)
    /\ taken' = [taken EXCEPT ![bo] = @ \/ try_result(bo) # "None"]
    /\ bout' = [bout EXCEPT ![bo] = IF try_result(bo) = "Ok" THEN "Ok" ELSE "panic"]
    /\ bo' = 0
    /\ cpc' = "idle"
    /\ UNCHANGED <<stateTime, stateIo, stateProbe, stateIdle, stateA, shutdown, stateStats, stateQueues,
                   stateLocks, next_worker, stateWorker, ctask, ctarget, ran, writes, wfrom>>

Runtime_block_on(c) ==
    \/ BlockOnSpawn(c)
    \/ bo # 0 /\ (SpawnActive(c) \/ schedule(c))
    \/ BlockOnWait(c)
    \/ BlockOnResult(c)

\* The client calls spawn and block_on in any order; it calls neither
\* try_result nor shutdown, so that every worker thread stays in its loop
\* unless a task ends it.
BlockNext ==
    \/ \E w \in 0..(MaxWorkers - 1) : worker_main(w)
    \/ bo = 0 /\ spawn(ClientId)
    \/ Runtime_block_on(ClientId)

\* A runtime whose computations do not panic: with no panic and no shutdown
\* every worker thread stays alive.
BlockInit == Init /\ \A t \in Tasks : body[t].kind # "panic"

\* The threads are scheduled fairly, and a call the client has begun goes on.
\* The client's steps are strongly fair: its one blocking acquire, the
\* global.lock() of schedule, is of a mutex the workers hold for one step at
\* a time and release again, and the mutex hands it to the waiting thread.
BlockSpec ==
    /\ BlockInit /\ [][BlockNext]_vars
    /\ \A w \in 0..(MaxWorkers - 1) : WF_vars(worker_main(w))
    /\ SF_vars(bo = 0 /\ cpc # "idle" /\ spawn(ClientId))
    /\ SF_vars(bo # 0 /\ Runtime_block_on(ClientId))

(***************************************************************************)
(* Scheduler::has_work (src/scheduler.rs), called by a thread of its own    *)
(* while the workers and the client run.                                    *)
(***************************************************************************)

\* The thread that calls has_work, as holder of a queue lock.
ProbeId == -5

\* What a step of has_work leaves alone, its own position apart.
stateProbed == <<stateTime, stateIo, stateBlock, stateIdle, stateA, shutdown, stateStats, stateQueues,
                 next_worker, stateControl, stateWorker, stateClient, stateHist>>

\* has_work moves on to the worker queues, from index i: the for loop over
\* self.workers; after the last one has_work returns false.
Probe(i) ==
    IF i >= num_workers
    THEN hi' = 0 /\ hpc' = "idle" /\ hret' = "false"
    ELSE hi' = i /\ hpc' = "hw_worker" /\ UNCHANGED hret

\* has_work: if let Ok(queue) = self.global.try_lock()
HwGlobalTry(p) ==
    /\ hpc = "idle"
    /\ IF global_lock = NoOwner
       THEN /\ global_lock' = p
            /\ hpc' = "hw_global_cs"
            /\ UNCHANGED <<hi, hret>>
       ELSE /\ Probe(0)
            /\ UNCHANGED global_lock
    /\ UNCHANGED <<stateProbed, workers_lock>>

\* Mutant: has_work answers true for any queue it could lock.
HwGlobalCheck_blind(p) ==
    /\ hpc = "hw_global_cs"
    /\ global_lock' = NoOwner
    /\ hi' = 0 /\ hpc' = "idle" /\ hret' = "true"
    /\ UNCHANGED <<stateProbed, workers_lock>>

\* has_work: "if !queue.is_empty() { return true; }" under the global lock;
\* the guard is dropped on both paths.
HwGlobalCheck(p) ==
    /\ hpc = "hw_global_cs"
    /\ global_lock' = NoOwner
    /\ IF global # <<>>
       THEN hi' = 0 /\ hpc' = "idle" /\ hret' = "true"
       ELSE Probe(0)
    /\ UNCHANGED <<stateProbed, workers_lock>>

\* has_work: if let Ok(queue) = worker.try_lock(), for the queue of index hi
HwWorkerTry(p) ==
    /\ hpc = "hw_worker"
    /\ IF workers_lock[hi] = NoOwner
       THEN /\ workers_lock' = [workers_lock EXCEPT ![hi] = p]
            /\ hpc' = "hw_worker_cs"
            /\ UNCHANGED <<hi, hret>>
       ELSE /\ Probe(hi + 1)
            /\ UNCHANGED workers_lock
    /\ UNCHANGED <<stateProbed, global_lock>>

\* has_work: "if !queue.is_empty() { return true; }" under the lock of a
\* worker queue; the guard is dropped on both paths.
HwWorkerCheck(p) ==
    /\ hpc = "hw_worker_cs"
    /\ workers_lock' = [workers_lock EXCEPT ![hi] = NoOwner]
    /\ IF workers[hi] # <<>>
       THEN hi' = 0 /\ hpc' = "idle" /\ hret' = "true"
       ELSE Probe(hi + 1)
    /\ UNCHANGED <<stateProbed, global_lock>>

has_work(p) == HwGlobalTry(p) \/ HwGlobalCheck(p) \/ HwWorkerTry(p) \/ HwWorkerCheck(p)

\* The runtime with a thread that calls has_work again and again, on tasks
\* that return.
ProbeInit == Init /\ \A t \in Tasks : body[t].kind = "ret"

ProbeNext ==
    \/ Next
    \/ has_work(ProbeId)

ProbeSpec == ProbeInit /\ [][ProbeNext]_vars

(***************************************************************************)
(* worker_main with its idle back-off (src/runtime.rs).  The scheduler is   *)
(* modelled above; for the back-off only the answer of find_work counts,    *)
(* Some or None, and it is an input of each iteration here.                 *)
(***************************************************************************)

\* What a step of the back-off loop leaves alone.
stateBacked == <<stateTime, stateIo, stateBlock, stateProbe, stateA, stateStats, stateQueues,
                 stateLocks, next_worker, stateControl, stateWorker, stateClient, stateHist>>

\* while !shutdown.load(Ordering::Acquire)
IdleTest(w) ==
    /\ Thread(w)
    /\ ipc[w] = "test"
    /\ ipc' = [ipc EXCEPT ![w] = IF shutdown THEN "exited" ELSE "find"]
    /\ UNCHANGED <<stateBacked, shutdown, idle_count, yields>>

\* if let Some(task) = scheduler.find_work(worker_id) ... else: idle_count += 1
IdleFind(w, found) ==
    /\ Thread(w)
    /\ ipc[w] = "find"
    /\ IF found
       THEN /\ ipc' = [ipc EXCEPT ![w] = "task"]
            /\ UNCHANGED idle_count
       ELSE /\ ipc' = [ipc EXCEPT ![w] = "count"]
            /\ idle_count' = [idle_count EXCEPT ![w] = @ + 1]
    /\ UNCHANGED <<stateBacked, shutdown, yields>>

\* task(); idle_count = 0;
IdleTask(w) ==
    /\ Thread(w)
    /\ ipc[w] = "task"
    /\ idle_count' = [idle_count EXCEPT ![w] = 0]
    /\ ipc' = [ipc EXCEPT ![w] = "test"]
    /\ yields' = [yields EXCEPT ![w] = 0]
    /\ UNCHANGED <<stateBacked, shutdown>>

\* Mutant: the worker yields up to and including the MAX_IDLE-th empty search.
IdleBranch_late(w) ==
    /\ Thread(w)
    /\ ipc[w] = "count"
    /\ ipc' = [ipc EXCEPT ![w] = IF idle_count[w] <= MAX_IDLE THEN "yield" ELSE "sleep"]
    /\ UNCHANGED <<stateBacked, shutdown, idle_count, yields>>

\* if idle_count < MAX_IDLE { yield } else { sleep }
IdleBranch(w) ==
    /\ Thread(w)
    /\ ipc[w] = "count"
    /\ ipc' = [ipc EXCEPT ![w] = IF idle_count[w] < MAX_IDLE THEN "yield" ELSE "sleep"]
    /\ UNCHANGED <<stateBacked, shutdown, idle_count, yields>>

\* thread::yield_now(), then the loop test
IdleYield(w) ==
    /\ Thread(w)
    /\ ipc[w] = "yield"
    /\ ipc' = [ipc EXCEPT ![w] = "test"]
    /\ yields' = [yields EXCEPT ![w] = @ + 1]
    /\ UNCHANGED <<stateBacked, shutdown, idle_count>>

\* thread::sleep(Duration::from_micros(100)); idle_count = 0; then the loop test
IdleSleep(w) ==
    /\ Thread(w)
    /\ ipc[w] = "sleep"
    /\ idle_count' = [idle_count EXCEPT ![w] = 0]
    /\ ipc' = [ipc EXCEPT ![w] = "test"]
    /\ yields' = [yields EXCEPT ![w] = 0]
    /\ UNCHANGED <<stateBacked, shutdown>>

\* Runtime::shutdown: self.shutdown.store(true, Ordering::Release)
IdleStop ==
    /\ ~shutdown
    /\ shutdown' = TRUE
    /\ UNCHANGED <<stateBacked, stateIdle>>

back_off(w) ==
    \/ IdleTest(w)
    \/ \E found \in BOOLEAN : IdleFind(w, found)
    \/ IdleTask(w)
    \/ IdleBranch(w)
    \/ IdleYield(w)
    \/ IdleSleep(w)

IdleInit == Init /\ \A t \in Tasks : body[t].kind = "ret"

IdleNext ==
    \/ \E w \in 0..(MaxWorkers - 1) : back_off(w)
    \/ IdleStop

\* Every worker thread is scheduled, and the task it runs returns.
IdleSpec ==
    /\ IdleInit /\ [][IdleNext]_vars
    /\ \A w \in 0..(MaxWorkers - 1) : WF_vars(back_off(w))

(***************************************************************************)
(* The timer wheel (src/time.rs): TimerWheel, its thread, and the futures  *)
(* sleep, sleep_until, timeout, Interval::tick and yield_now.  Each future *)
(* is awaited by an executor: the futures_executor::block_on of a task     *)
(* closure (runtime.rs:150), which polls the future, and on Pending parks  *)
(* its thread until the waker of its Context has been invoked.             *)
(***************************************************************************)

\* The timer thread as holder of the heap mutex.
DriverId == -3

\* Mutant: entries of equal deadline are ordered by decreasing id.
cmp_ties_reversed(a, b) ==
    IF a.deadline < b.deadline THEN -1
    ELSE IF a.deadline > b.deadline THEN 1
    ELSE IF a.id > b.id THEN -1
    ELSE IF a.id < b.id THEN 1 ELSE 0

\* impl Ord for Timer: self.deadline.cmp(&other.deadline).then_with(|| self.id.cmp(&other.id))
cmp(a, b) ==
    IF a.deadline < b.deadline THEN -1
    ELSE IF a.deadline > b.deadline THEN 1
    ELSE IF a.id < b.id THEN -1
    ELSE IF a.id > b.id THEN 1 ELSE 0

\* BinaryHeap<Reverse<Timer>>::peek on a non-empty heap: the least Timer.
peek(h) == CHOOSE x \in h : \A y \in h : cmp(x, y) <= 0

\* Mutant: the loop pops at most one entry in a pass.
Drain_one(h, n, acc) ==
    IF h # {} /\ peek(h).deadline <= n
    THEN <<h \ {peek(h)}, Append(acc, peek(h))>>
    ELSE <<h, acc>>

\* Mutant: a pass pops every entry, whatever its deadline.
RECURSIVE Drain_all(_, _, _)
Drain_all(h, n, acc) ==
    IF h # {}
    THEN Drain_all(h \ {peek(h)}, n, Append(acc, peek(h)))
    ELSE <<h, acc>>

\* The "while let Some(Reverse(timer)) = timers.peek()" loop of run: entries
\* are popped and pushed to expired_timers while the least one has
\* deadline <= n.  The result is <<heap left, expired_timers>>.
RECURSIVE Drain(_, _, _)
Drain(h, n, acc) ==
    IF h # {} /\ peek(h).deadline <= n
    THEN Drain(h \ {peek(h)}, n, Append(acc, peek(h)))
    ELSE <<h, acc>>

\* The clock advances.
Advance ==
    /\ now < MaxNow
    /\ now' = now + 1
    /\ UNCHANGED <<stateRuntime, stateIo, stateWheel, stateDriver, stateFuture, stateExec,
                   stateExecHist>>

\* run: let now = Instant::now(); let mut expired_timers = Vec::new(); and
\* self.timers.lock().unwrap(), a blocking acquire.  The clock is read in the
\* step that gets the lock: no other thread keeps the heap lock across steps,
\* so the timer thread never waits between the two.
RunLock ==
    /\ dpc = "now"
    /\ timers_lock = NoOwner
    /\ dnow' = now
    /\ timers_lock' = DriverId
    /\ dpc' = "drain"
    /\ UNCHANGED <<stateRuntime, stateIo, now, timers, next_id, expired, woken, fired, stateFuture,
                   stateExec, stateExecHist>>

\* Mutant: the expired entries are collected but left in the heap.
RunDrain_keeps ==
    /\ dpc = "drain"
    /\ timers' = timers
    /\ expired' = Drain(timers, dnow, <<>>)[2]
    /\ timers_lock' = NoOwner
    /\ dpc' = "wake"
    /\ UNCHANGED <<stateRuntime, stateIo, now, next_id, dnow, woken, fired, stateFuture, stateExec,
                   stateExecHist>>

\* run: the expired entries are collected under the lock; the guard is dropped
\* at the end of the block.
RunDrain ==
    /\ dpc = "drain"
    /\ timers' = Drain(timers, dnow, <<>>)[1]
    /\ expired' = Drain(timers, dnow, <<>>)[2]
    /\ timers_lock' = NoOwner
    /\ dpc' = "wake"
    /\ UNCHANGED <<stateRuntime, stateIo, now, next_id, dnow, woken, fired, stateFuture, stateExec,
                   stateExecHist>>

\* Mutant: the wake-up of an expired entry does not reach the executor.
RunWake_silent ==
    /\ dpc = "wake"
    /\ IF expired # <<>>
       THEN /\ woken' = Append(woken, Head(expired))
            /\ fired' = fired \cup {Head(expired).id}
            /\ expired' = Tail(expired)
            /\ UNCHANGED <<dpc, dnow, unparked>>
       ELSE /\ dpc' = "now"
            /\ dnow' = 0
            /\ woken' = <<>>
            /\ UNCHANGED <<unparked, expired, fired>>
    /\ UNCHANGED <<stateRuntime, stateIo, now, stateWheel, stateFuture, prog, epc, eid, out,
                   stateExecHist>>

\* run: "for timer in expired_timers { waker.wake() }", one entry per step;
\* waking sets the notification flag of the executor and unparks its thread.
\* After the last entry: thread::sleep(Duration::from_millis(1)) and the next
\* pass; the locals of the pass are gone.
RunWake ==
    /\ dpc = "wake"
    /\ IF expired # <<>>
       THEN /\ unparked' = [unparked EXCEPT ![Head(expired).waker] = TRUE]
            /\ woken' = Append(woken, Head(expired))
            /\ fired' = fired \cup {Head(expired).id}
            /\ expired' = Tail(expired)
            /\ UNCHANGED <<dpc, dnow>>
       ELSE /\ dpc' = "now"
            /\ dnow' = 0
            /\ woken' = <<>>
            /\ UNCHANGED <<unparked, expired, fired>>
    /\ UNCHANGED <<stateRuntime, stateIo, now, stateWheel, stateFuture, prog, epc, eid, out,
                   stateExecHist>>

run == RunLock \/ RunDrain \/ RunWake

\* The future that is polled for the clock or the yielded flag: the sleep or
\* yield_now the computation awaits, directly or inside timeout's async
\* block, or the sleep_until of Interval::tick.
LeafKind(f) ==
    IF prog[f].kind = "timeout" THEN prog[f].inner
    ELSE IF prog[f].kind = "yield" THEN "yield" ELSE "sleep"

\* Mutant: the sleep future resolves one clock unit before its deadline.
SleepPoll_early(n, deadline) == IF n + 1 >= deadline THEN "Ready" ELSE "Pending"

\* SleepFuture::poll / SleepUntilFuture::poll: "if now >= self.deadline { return Poll::Ready(()) }"
SleepPoll(n, deadline) == IF n >= deadline THEN "Ready" ELSE "Pending"

\* Mutant: the yield future never completes.
YieldPoll_never(y) == "Pending"

\* YieldFuture::poll: Ready if self.yielded, else self.yielded = true and Pending
YieldPoll(y) == IF y THEN "Ready" ELSE "Pending"

\* Mutant: the next boundary is counted from the clock, not from the last boundary.
NextBoundary_drift(f) == now + prog[f].d

\* Interval::tick: self.next_tick += self.period
NextBoundary(f) == next_tick[f] + prog[f].d

\* The poll of the sleep / yield future returned Pending.  Inside
\* TimeoutFuture::poll the deadline of the timeout is checked next; otherwise
\* the poll of the computation is Pending and block_on parks.
Pending(f) ==
    epc' = [epc EXCEPT ![f] = IF prog[f].kind = "timeout" THEN "wcheck" ELSE "parked"]

\* The poll of the sleep / yield future returned Ready.  TimeoutFuture::poll
\* returns Ready(Ok(output)); Interval::tick adds the period to next_tick and
\* returns tick_time, and the consumer calls tick again; a plain sleep,
\* sleep_until or yield_now is over.
Ready(f) ==
    /\ rtime' = [rtime EXCEPT ![f] = now]
    /\ IF prog[f].kind = "interval"
       THEN /\ next_tick' = [next_tick EXCEPT ![f] = NextBoundary(f)]
            /\ ticks' = [ticks EXCEPT ![f] = Append(@, [at |-> ldeadline[f], seen |-> now])]
            /\ epc' = [epc EXCEPT ![f] = IF Len(ticks[f]) + 1 < MaxTicks THEN "tick" ELSE "done"]
            /\ out' = [out EXCEPT ![f] = IF Len(ticks[f]) + 1 < MaxTicks THEN @ ELSE "Ready"]
       ELSE /\ epc' = [epc EXCEPT ![f] = "done"]
            /\ out' = [out EXCEPT ![f] = IF prog[f].kind = "timeout" THEN "Ok" ELSE "Ready"]
            /\ UNCHANGED <<next_tick, ticks>>

\* The computation creates its future: SleepFuture::new (Instant::now() +
\* duration), SleepUntilFuture::new (deadline), TimeoutFuture::new
\* (Instant::now() + duration), Interval::new (Instant::now() + period), or
\* YieldFuture { yielded: false }; timer_id starts as None.
Create(f) ==
    LET p == prog[f]
    IN /\ epc[f] = "new"
       /\ born' = [born EXCEPT ![f] = now]
       /\ ldeadline' = [ldeadline EXCEPT ![f] =
                          IF p.kind = "sleep" THEN now + p.d
                          ELSE IF p.kind = "sleep_until" THEN p.d ELSE @]
       /\ wdeadline' = [wdeadline EXCEPT ![f] = IF p.kind = "timeout" THEN now + p.d ELSE @]
       /\ next_tick' = [next_tick EXCEPT ![f] = IF p.kind = "interval" THEN now + p.d ELSE @]
       /\ epc' = [epc EXCEPT ![f] =
                    IF p.kind = "timeout" THEN "lnew"
                    ELSE IF p.kind = "interval" THEN "tick" ELSE "lpoll"]
       /\ UNCHANGED <<stateRuntime, stateIo, now, stateWheel, stateDriver, ltimer, yielded, wtimer,
                      prog, eid, unparked, out, rtime, lpolls, ticks>>

\* The first poll of timeout's async block creates the future it awaits:
\* SleepFuture::new(d2) or YieldFuture { yielded: false }.
LeafNew(f) ==
    /\ epc[f] = "lnew"
    /\ ldeadline' = [ldeadline EXCEPT ![f] = IF prog[f].inner = "sleep" THEN now + prog[f].d2 ELSE @]
    /\ epc' = [epc EXCEPT ![f] = "lpoll"]
    /\ UNCHANGED <<stateRuntime, stateIo, now, stateWheel, stateDriver, ltimer, yielded, wdeadline,
                   wtimer, next_tick, prog, eid, unparked, out, stateExecHist>>

\* Interval::tick: let tick_time = self.next_tick; sleep_until(tick_time)
tick(f) ==
    /\ epc[f] = "tick"
    /\ ldeadline' = [ldeadline EXCEPT ![f] = next_tick[f]]
    /\ ltimer' = [ltimer EXCEPT ![f] = 0]
    /\ lpolls' = [lpolls EXCEPT ![f] = <<>>]
    /\ epc' = [epc EXCEPT ![f] = "lpoll"]
    /\ UNCHANGED <<stateRuntime, stateIo, now, stateWheel, stateDriver, yielded, wdeadline, wtimer,
                   next_tick, prog, eid, unparked, out, rtime, ticks, born>>

\* One poll of the sleep / yield future; when it has to register a timer
\* (timer_id is None) the step ends with the self.next_id.fetch_add(1) of
\* add_timer, and the entry is pushed in the next step.
LeafPoll(f) ==
    LET r == IF LeafKind(f) = "yield" THEN YieldPoll(yielded[f])
             ELSE SleepPoll(now, ldeadline[f])
    IN /\ epc[f] = "lpoll"
       /\ lpolls' = [lpolls EXCEPT ![f] = Append(@, r)]
       /\ yielded' = [yielded EXCEPT ![f] = @ \/ LeafKind(f) = "yield"]
       /\ IF r = "Ready"
          THEN Ready(f) /\ UNCHANGED <<eid, next_id>>
          ELSE /\ IF LeafKind(f) = "sleep" /\ ltimer[f] = 0
                  THEN /\ eid' = [eid EXCEPT ![f] = next_id]
                       /\ next_id' = next_id + 1
                       /\ epc' = [epc EXCEPT ![f] = "lpush"]
                  ELSE Pending(f) /\ UNCHANGED <<eid, next_id>>
               /\ UNCHANGED <<out, rtime, next_tick, ticks>>
       /\ UNCHANGED <<stateRuntime, stateIo, now, timers, timers_lock, stateDriver, ldeadline, ltimer,
                      wdeadline, wtimer, prog, unparked, born>>

\* add_timer: self.timers.lock().unwrap().push(Reverse(timer)), a blocking
\* acquire; then self.timer_id = Some(timer_id) and the poll returns Pending.
LeafPush(f) ==
    /\ epc[f] = "lpush"
    /\ timers_lock = NoOwner
    /\ timers' = timers \cup {[id |-> eid[f], deadline |-> ldeadline[f], waker |-> f]}
    /\ ltimer' = [ltimer EXCEPT ![f] = eid[f]]
    /\ eid' = [eid EXCEPT ![f] = 0]
    /\ Pending(f)
    /\ UNCHANGED <<stateRuntime, stateIo, now, timers_lock, next_id, stateDriver, ldeadline, yielded,
                   wdeadline, wtimer, next_tick, prog, unparked, out, stateExecHist>>

\* TimeoutFuture::poll after the inner poll was Pending: "if now >=
\* *this.deadline { return Poll::Ready(Err(TimeoutError)) }"; when the timer
\* has to be registered (timer_id is None) the step ends with the
\* self.next_id.fetch_add(1) of add_timer.
WrapCheck(f) ==
    /\ epc[f] = "wcheck"
    /\ IF now >= wdeadline[f]
       THEN /\ epc' = [epc EXCEPT ![f] = "done"]
            /\ out' = [out EXCEPT ![f] = "Err"]
            /\ rtime' = [rtime EXCEPT ![f] = now]
       ELSE /\ epc' = [epc EXCEPT ![f] = IF wtimer[f] = 0 THEN "wpush" ELSE "parked"]
            /\ UNCHANGED <<out, rtime>>
    /\ eid' = [eid EXCEPT ![f] = IF now < wdeadline[f] /\ wtimer[f] = 0 THEN next_id ELSE @]
    /\ next_id' = IF now < wdeadline[f] /\ wtimer[f] = 0 THEN next_id + 1 ELSE next_id
    /\ UNCHANGED <<stateRuntime, stateIo, now, timers, timers_lock, stateDriver, stateFuture, prog,
                   unparked, lpolls, ticks, born>>

\* add_timer: the entry is pushed under the heap lock; *this.timer_id =
\* Some(timer_id) and the poll returns Pending.
WrapPush(f) ==
    /\ epc[f] = "wpush"
    /\ timers_lock = NoOwner
    /\ timers' = timers \cup {[id |-> eid[f], deadline |-> wdeadline[f], waker |-> f]}
    /\ wtimer' = [wtimer EXCEPT ![f] = eid[f]]
    /\ eid' = [eid EXCEPT ![f] = 0]
    /\ epc' = [epc EXCEPT ![f] = "parked"]
    /\ UNCHANGED <<stateRuntime, stateIo, now, timers_lock, next_id, stateDriver, ldeadline, ltimer,
                   yielded, wdeadline, next_tick, prog, unparked, out, stateExecHist>>

\* block_on after a Pending poll: the thread parks until the notification
\* flag is set ("while !unparked.swap(false) { park() }"), then polls again.
Unpark(f) ==
    /\ epc[f] = "parked"
    /\ unparked[f]
    /\ unparked' = [unparked EXCEPT ![f] = FALSE]
    /\ epc' = [epc EXCEPT ![f] = "lpoll"]
    /\ UNCHANGED <<stateRuntime, stateIo, now, stateWheel, stateDriver, stateFuture, prog, eid, out,
                   stateExecHist>>

executor(f) ==
    \/ Create(f)
    \/ LeafNew(f)
    \/ tick(f)
    \/ LeafPoll(f)
    \/ LeafPush(f)
    \/ WrapCheck(f)
    \/ WrapPush(f)
    \/ Unpark(f)

\* MaxFutures computations, one per executor, on a runtime that is otherwise
\* idle; the first use of TIMER_WHEEL builds the wheel and starts its thread.
\* The computation of executor 1 is any of Programs; the other executors
\* run a plain sleep of a positive duration next to it.
ProgramsOf(f) ==
    IF f = 1 THEN Programs ELSE {p \in Programs : p.kind = "sleep" /\ p.d > 0}

TimeInit ==
    /\ InitRuntime
    /\ num_workers = 1
    /\ \A t \in Tasks : body[t].kind = "ret"
    /\ \E p \in [Futures -> Programs] :
          /\ \A f \in Futures : p[f] \in ProgramsOf(f)
          /\ InitTimer(p, "new", "now")
    /\ InitReactor("off", "off")

TimeNext ==
    \/ Advance
    \/ run
    \/ \E f \in 1..MaxFutures : executor(f)

TimeSpec == TimeInit /\ [][TimeNext]_vars

(***************************************************************************)
(* The reactor (src/reactor.rs): Reactor::register, register_waker, the    *)
(* event loop thread and shutdown.  A caller is a computation that polls   *)
(* an I/O future: the polls that register a waker are IoFuture::poll       *)
(* (reactor.rs:98-107) and TcpStream's poll_read / poll_write (net.rs:162, *)
(* 185); the waker registered is the one of the caller's executor.         *)
(***************************************************************************)

\* The reactor thread as holder of the map mutex.
ReactorId == -4

\* Mutant: the entry is added next to the one the token already has.
insert_keeps(m, t, w) == m \cup {[token |-> t, waker |-> w]}

\* HashMap::insert: the entry of the token is replaced.
insert(m, t, w) == {e \in m : e.token # t} \cup {[token |-> t, waker |-> w]}

\* HashMap::get, the waker stored for the token (0: None).
get(m, t) == IF \E e \in m : e.token = t THEN (CHOOSE e \in m : e.token = t).waker ELSE 0

\* Mutant: the waker is returned but left in the map.
remove_keeps(m, t) == m

\* HashMap::remove, the map that is left.
remove(m, t) == {e \in m : e.token # t}

\* Mutant: the counter is read and not advanced.
RegisterFetch_stale(c) ==
    /\ kpc[c] = "idle"
    /\ next_token <= MaxTokens
    /\ ktoken' = [ktoken EXCEPT ![c] = next_token]
    /\ kpc' = [kpc EXCEPT ![c] = "reg"]
    /\ UNCHANGED <<stateRuntime, stateTime, stateWait, stateReactor, kwoken, stateReactorHist>>

\* register: let token = Token(self.next_token.fetch_add(1, Relaxed))
RegisterFetch(c) ==
    /\ kpc[c] = "idle"
    /\ next_token <= MaxTokens
    /\ ktoken' = [ktoken EXCEPT ![c] = next_token]
    /\ next_token' = next_token + 1
    /\ kpc' = [kpc EXCEPT ![c] = "reg"]
    /\ UNCHANGED <<stateRuntime, stateTime, stateWait, registry, wakers, wakers_lock, rshutdown, rpc, events,
                   rwaker, kwoken, stateReactorHist>>

\* register: self.registry.register(source, token, interest)?; Ok(token).
\* The OS call succeeds or fails; on failure register returns the error.
RegisterOs(c) ==
    /\ kpc[c] = "reg"
    /\ \/ /\ registry' = registry \cup {ktoken[c]}
          /\ returned' = Append(returned, ktoken[c])
       \/ UNCHANGED <<registry, returned>>
    /\ kpc' = [kpc EXCEPT ![c] = "idle"]
    /\ ktoken' = [ktoken EXCEPT ![c] = 0]
    /\ UNCHANGED <<stateRuntime, stateTime, stateWait, next_token, wakers, wakers_lock, rshutdown, rpc,
                   events, rwaker, kwoken, lastreg, dropped, rwoken, rafter>>

register(c) == RegisterFetch(c) \/ RegisterOs(c)

\* A poll of the caller's I/O future reaches register_waker(token, waker)
\* for a token register has returned (the token of a socket).
RegisterWakerCall(c, t) ==
    /\ kpc[c] = "idle"
    /\ \E i \in 1..Len(returned) : returned[i] = t
    /\ kpc' = [kpc EXCEPT ![c] = "rw_lock"]
    /\ ktoken' = [ktoken EXCEPT ![c] = t]
    /\ UNCHANGED <<stateRuntime, stateTime, stateWait, stateReactor, kwoken, stateReactorHist>>

\* register_waker: self.wakers.lock().unwrap(), a blocking acquire
RegisterWakerLock(c) ==
    /\ kpc[c] = "rw_lock"
    /\ wakers_lock = NoOwner
    /\ wakers_lock' = c
    /\ kpc' = [kpc EXCEPT ![c] = "rw_cs"]
    /\ UNCHANGED <<stateRuntime, stateTime, stateWait, next_token, registry, wakers, rshutdown, rpc, events,
                   rwaker, ktoken, kwoken, stateReactorHist>>

\* register_waker: .insert(token, waker); the guard is dropped; an IoFuture
\* sets self.registered = true; the poll returns Pending and the executor
\* parks the caller.
RegisterWakerInsert(c) ==
    /\ kpc[c] = "rw_cs"
    /\ wakers' = insert(wakers, ktoken[c], c)
    /\ lastreg' = [lastreg EXCEPT ![ktoken[c]] = c]
    /\ wakers_lock' = NoOwner
    /\ kpc' = [kpc EXCEPT ![c] = "parked"]
    /\ ktoken' = [ktoken EXCEPT ![c] = 0]
    /\ registered' = [registered EXCEPT ![c] = @ \/ kio[c] # 0]
    /\ UNCHANGED <<stateRuntime, stateTime, kio, next_token, registry, rshutdown, rpc, events,
                   rwaker, kwoken, returned, dropped, rwoken, rafter>>

register_waker(c) ==
    \/ \E t \in 1..MaxTokens : RegisterWakerCall(c, t)
    \/ RegisterWakerLock(c)
    \/ RegisterWakerInsert(c)

\* Reactor::wait_for_io(token).await after a would-block (net.rs: accept,
\* connect, send_to, recv_from): IoFuture { token, registered: false } is
\* created and polled; the first poll finds registered false and calls
\* register_waker(self.token, cx.waker().clone()).
WaitForIo(c, t) ==
    /\ kpc[c] = "idle"
    /\ \E i \in 1..Len(returned) : returned[i] = t
    /\ kio' = [kio EXCEPT ![c] = t]
    /\ registered' = [registered EXCEPT ![c] = FALSE]
    /\ kpc' = [kpc EXCEPT ![c] = "rw_lock"]
    /\ ktoken' = [ktoken EXCEPT ![c] = t]
    /\ UNCHANGED <<stateRuntime, stateTime, stateReactor, kwoken, stateReactorHist>>

\* IoFuture::poll once self.registered is true: "Poll::Pending", with no
\* call of register_waker.
IoPoll(r) == IF r THEN "Pending" ELSE "register_waker"

\* The executor of a parked caller sees its waker invoked and polls again.
\* A caller that awaits an IoFuture polls that future: the poll returns
\* Pending and the executor parks again; any other caller is back in its
\* computation.
Resume(c) ==
    /\ kpc[c] = "parked"
    /\ kwoken[c]
    /\ kwoken' = [kwoken EXCEPT ![c] = FALSE]
    /\ IF kio[c] = 0
       THEN /\ kpc' = [kpc EXCEPT ![c] = "idle"]
            /\ UNCHANGED ktoken
       ELSE IF IoPoll(registered[c]) = "Pending"
       THEN UNCHANGED <<kpc, ktoken>>
       ELSE /\ kpc' = [kpc EXCEPT ![c] = "rw_lock"]
            /\ ktoken' = [ktoken EXCEPT ![c] = kio[c]]
    /\ UNCHANGED <<stateRuntime, stateTime, stateWait, stateReactor, stateReactorHist>>

wait_for_io(c) == \E t \in 1..MaxTokens : WaitForIo(c, t)

caller(c) == register(c) \/ register_waker(c) \/ Resume(c)

\* The sequences of at most n different tokens of the set S.
RECURSIVE Batches(_, _)
Batches(S, n) ==
    IF n = 0 THEN {<<>>}
    ELSE {<<>>} \cup UNION {{<<t>> \o b : b \in Batches(S \ {t}, n - 1)} : t \in S}

\* run_event_loop: "while !shutdown.load(Acquire)"
ReactorCheck ==
    /\ rpc = "check"
    /\ rpc' = IF rshutdown THEN "exited" ELSE "poll"
    /\ UNCHANGED <<stateRuntime, stateTime, stateWait, next_token, registry, wakers, wakers_lock, rshutdown,
                   events, rwaker, stateCaller, stateReactorHist>>

\* Where the loop goes when the events left to process are ev.
AfterEvent(ev) == IF ev = <<>> THEN "check" ELSE "lock"

\* Mutant: after an error the loop polls again without testing the flag.
ReactorPoll_retry ==
    /\ rpc = "poll"
    /\ \/ UNCHANGED <<rpc, events>>
       \/ /\ events' \in Batches(registry, MaxEvents)
          /\ rpc' = AfterEvent(events')
    /\ rwoken' = <<>>
    /\ rafter' = IF rshutdown /\ rafter < 2 THEN rafter + 1 ELSE rafter
    /\ UNCHANGED <<stateRuntime, stateTime, stateWait, next_token, registry, wakers, wakers_lock, rshutdown,
                   rwaker, stateCaller, returned, lastreg, dropped>>

\* run_event_loop: poll.poll(&mut events, Some(10 ms)) returns: an error
\* ("continue"), or the events of this poll, none when the timeout passed.
ReactorPoll ==
    /\ rpc = "poll"
    /\ \/ /\ rpc' = "check"
          /\ UNCHANGED events
       \/ /\ events' \in Batches(registry, MaxEvents)
          /\ rpc' = AfterEvent(events')
    /\ rwoken' = <<>>
    /\ rafter' = IF rshutdown /\ rafter < 2 THEN rafter + 1 ELSE rafter
    /\ UNCHANGED <<stateRuntime, stateTime, stateWait, next_token, registry, wakers, wakers_lock, rshutdown,
                   rwaker, stateCaller, returned, lastreg, dropped>>

\* run_event_loop: wakers.lock().unwrap() for the next event, a blocking acquire
ReactorLock ==
    /\ rpc = "lock"
    /\ wakers_lock = NoOwner
    /\ wakers_lock' = ReactorId
    /\ rpc' = "remove"
    /\ UNCHANGED <<stateRuntime, stateTime, stateWait, next_token, registry, wakers, rshutdown, events,
                   rwaker, stateCaller, stateReactorHist>>

\* run_event_loop: .remove(&token) under the lock.  The guard is a temporary
\* of the "if let" scrutinee: on None it is dropped as the statement ends, on
\* Some(waker) it lives through the block that calls waker.wake().
ReactorRemove ==
    LET token == Head(events)
        found == get(wakers, token)
    IN /\ rpc = "remove"
       /\ wakers' = remove(wakers, token)
       /\ rwaker' = found
       /\ IF found # 0
          THEN /\ rpc' = "wake"
               /\ UNCHANGED <<wakers_lock, events, dropped>>
          ELSE /\ wakers_lock' = NoOwner
               /\ events' = Tail(events)
               /\ dropped' = dropped \cup {token}
               /\ rpc' = AfterEvent(Tail(events))
       /\ UNCHANGED <<stateRuntime, stateTime, stateWait, next_token, registry, rshutdown, stateCaller,
                      returned, lastreg, rwoken, rafter>>

\* run_event_loop: waker.wake(), which sets the notification flag of the
\* caller's executor and unparks it; then the guard is dropped and the for
\* loop goes to the next event.
ReactorWake ==
    /\ rpc = "wake"
    /\ kwoken' = [kwoken EXCEPT ![rwaker] = TRUE]
    /\ rwoken' = Append(rwoken, [token |-> Head(events), waker |-> rwaker])
    /\ wakers_lock' = NoOwner
    /\ rwaker' = 0
    /\ events' = Tail(events)
    /\ rpc' = AfterEvent(Tail(events))
    /\ UNCHANGED <<stateRuntime, stateTime, stateWait, next_token, registry, wakers, rshutdown, kpc, ktoken,
                   returned, lastreg, dropped, rafter>>

run_event_loop == ReactorCheck \/ ReactorPoll \/ ReactorLock \/ ReactorRemove \/ ReactorWake

\* Reactor::shutdown: self.shutdown.store(true, Release)
ReactorShutdown ==
    /\ ~rshutdown
    /\ rshutdown' = TRUE
    /\ UNCHANGED <<stateRuntime, stateTime, stateWait, next_token, registry, wakers, wakers_lock, rpc, events,
                   rwaker, stateCaller, stateReactorHist>>

\* The reactor with its thread in the loop and MaxCallers callers, on a
\* runtime that is otherwise idle and uses no timer.
ReactorInit ==
    /\ InitRuntime
    /\ num_workers = 1
    /\ \A t \in Tasks : body[t].kind = "ret"
    /\ InitTimer([f \in Futures |-> NoProg], "off", "off")
    /\ InitReactor("check", "idle")

ReactorNext ==
    \/ run_event_loop
    \/ ReactorShutdown
    \/ \E c \in 1..MaxCallers : caller(c)

\* The reactor thread, a thread inside register_waker and an executor whose
\* waker was invoked are scheduled fairly; poll always returns, at the
\* latest when its timeout has passed.
ReactorSpec ==
    /\ ReactorInit /\ [][ReactorNext]_vars
    /\ WF_vars(run_event_loop)
    /\ \A c \in 1..MaxCallers : WF_vars(RegisterWakerLock(c) \/ RegisterWakerInsert(c))
    /\ \A c \in 1..MaxCallers : WF_vars(Resume(c))

\* The same reactor with callers that also suspend on wait_for_io, as the
\* wrappers of net.rs do after a would-block.
WaitNext ==
    \/ ReactorNext
    \/ \E c \in 1..MaxCallers : wait_for_io(c)

WaitSpec ==
    /\ ReactorInit /\ [][WaitNext]_vars
    /\ WF_vars(run_event_loop)
    /\ \A c \in 1..MaxCallers : WF_vars(RegisterWakerLock(c) \/ RegisterWakerInsert(c))
    /\ \A c \in 1..MaxCallers : WF_vars(Resume(c))

(***************************************************************************)
(* Properties.                                                             *)
(***************************************************************************)

\* The tasks spawned so far, and whether their computations all return normally.
SpawnedTasks == 1..tasks_spawned
AllReturn == \A t \in SpawnedTasks : body[t].kind = "ret"

\* Every handle handed out so far reports finished.
AllFinished == \A t \in SpawnedTasks : Spawned(t) /\ is_finished(t)

\* C1: when the spawned computations all return normally, in every state in
\* which every JoinHandle reports finished, tasks_completed equals
\* tasks_spawned and every task closure has been invoked exactly once.
C1_CompletedEqualsSpawned ==
    (tasks_spawned >= 1 /\ AllReturn /\ AllFinished) =>
        /\ tasks_completed = tasks_spawned
        /\ \A t \in SpawnedTasks : ran[t] = 1

\* A task whose computation panicked and that no worker holds any more: the
\* execution boundary of the task has been passed.
Failed(t) == body[t].kind = "panic" /\ ran[t] > 0 /\ \A w \in WorkerIds : wtask[w] # t

\* C2: a panic of a spawned computation is captured at the execution
\* boundary: no worker thread is ended by it, and the TaskControl of the
\* failed task is completed with an outcome the JoinHandle can observe.
C2_PanicCaptured ==
    /\ \A w \in WorkerIds : wpc[w] # "dead"
    /\ \A t \in Tasks : Failed(t) => (completed[t] /\ (result[t] # "None" \/ taken[t]))

\* C5: when the poll of a running computation returns Pending, the worker
\* thread that ran it goes back to the worker loop.
C5_SuspendReturnsToLoop ==
    [][\A w \in WorkerIds :
          (/\ wpc[w] = "run"
           /\ body[wtask[w]].kind = "await"
           /\ poll(body[wtask[w]].on) = "Pending"
           /\ wpc'[w] # "run") => wpc'[w] = "loop"]_vars

\* How many queue slots, global or local, hold task t, and which workers hold it.
Count(q, t) == Cardinality({k \in 1..Len(q) : q[k] = t})
RECURSIVE SumLocal(_, _)
SumLocal(i, t) == IF i >= num_workers THEN 0 ELSE Count(workers[i], t) + SumLocal(i + 1, t)
Queued(t) == Count(global, t) + SumLocal(0, t)
Holders(t) == {w \in WorkerIds : wtask[w] = t}

\* C6: every task handed to schedule is in exactly one queue until find_work
\* returns it, and in no queue from then on; at most one worker holds it, and
\* find_work returns it at most once.
C6_OneQueueOrOneWorker ==
    \A t \in Tasks :
        /\ Queued(t) + Cardinality(Holders(t)) <= 1
        /\ ran[t] <= 1
        /\ (Spawned(t) /\ ran[t] = 0) => Queued(t) = 1
        /\ (~Spawned(t) \/ ran[t] > 0) => Queued(t) = 0

\* The three places at once: one task in the global queue, one in a local
\* queue, and one in the hands of a worker that stole it.
C6_Witness ==
    /\ global # <<>>
    /\ \E i \in WorkerIds : workers[i] # <<>>
    /\ \E w \in WorkerIds : wtask[w] # 0 /\ wfrom[w] = "steal"

\* C8: the outcome of a TaskControl is stored at most once, and a completed
\* flag that is true stays true in every step.
C8_WrittenOnceFlagMonotone ==
    [][\A t \in Tasks : (completed[t] => completed'[t]) /\ writes'[t] <= 1]_vars

\* A completed task whose outcome try_result has taken: the calls the claim
\* names (complete, try_result, poll) have all acted on the TaskControl.
C8_Witness == \E t \in Tasks : completed[t] /\ writes[t] = 1 /\ taken[t]

\* C9: complete() stores the outcome before it sets the flag: whenever the
\* completed flag of a task reads true, complete() has stored its outcome.
C9_OutcomeBeforeFlag == \A t \in Tasks : completed[t] => writes[t] >= 1

\* A reader that loads completed = true while the completing worker is still
\* inside the task closure, and finds the outcome.
C9_Witness ==
    \E t \in Tasks :
        /\ ClientOwns(t) /\ is_finished(t) /\ try_result(t) = "Ok"
        /\ \E w \in WorkerIds : wtask[w] = t /\ wpc[w] = "stat_completed"

\* C10 as stated: try_result returns None in every state before the task
\* completes and Some(outcome) in every state after it completes.
C10_SomeWheneverCompleted ==
    \A t \in Tasks : Spawned(t) => (try_result(t) # "None" <=> completed[t])

\* C10 amended: try_result returns None in every state before the task
\* completes; after it completes it returns Some(outcome) until a call has
\* taken the outcome, and None from then on.
C10_SomeUntilTaken ==
    \A t \in Tasks :
        Spawned(t) => (try_result(t) # "None" <=> (completed[t] /\ ~taken[t]))

\* try_result has returned the outcome of a completed task to the client.
C10_Witness ==
    \E t \in Tasks : ClientOwns(t) /\ completed[t] /\ taken[t] /\ try_result(t) = "None"

\* Some task has failed: its computation panicked.
SomeFailed == \E p \in Tasks : Failed(p)

\* C3: a task that returns normally and is spawned after another task has
\* failed is eventually executed, and its JoinHandle completes (unless the
\* runtime is shut down).
C3_FaultIsolation ==
    \A t \in Tasks :
        (cpc = "idle" /\ tasks_spawned = t - 1 /\ SomeFailed /\ body[t].kind = "ret")
            ~> (completed[t] \/ shutdown)

\* Worker w is parked inside block_on, on the JoinHandle of a task that has
\* completed in the meantime.
ParkedOnCompleted(w) ==
    /\ Thread(w)
    /\ wpc[w] = "parked"
    /\ completed[body[wtask[w]].on]

\* C4: a task that awaited a JoinHandle before its target completed is
\* resumed once complete() has set the flag of the target.
C4_AwaitResumes ==
    \A w \in 0..(MaxWorkers - 1) :
        ParkedOnCompleted(w) ~> ~(Thread(w) /\ wpc[w] = "parked")

C11_ReadOnce ==
    /\ [](\A t \in Tasks :
            /\ (Spawned(t) /\ completed[t] /\ ~taken[t]) => try_result(t) = "Ok"
            /\ taken[t] => (try_result(t) = "None" /\ is_finished(t)))
    /\ [][\A t \in Tasks :
            (taken'[t] /\ ~taken[t]) =>
                (try_result(t) = "Ok" /\ result'[t] = "None" /\ completed'[t])]_vars

\* The poll of an awaiting task has returned Ready with the outcome of its
\* target, whose handle now yields None and still reports finished.
C11_Witness ==
    \E w \in WorkerIds :
        /\ wtask[w] # 0 /\ wpc[w] = "complete_store"
        /\ body[wtask[w]].kind = "await"
        /\ taken[body[wtask[w]].on]
        /\ try_result(body[wtask[w]].on) = "None"
        /\ is_finished(body[wtask[w]].on)

\* C12: find_work(w) goes local, global, steal.  It starts with a try_lock of
\* w's own queue; holding that lock on a non-empty queue it returns the front
\* task; it turns to the global queue only when the local step gave nothing,
\* and holding the global lock on a non-empty queue it returns the front
\* task; it enters steal_work only from the global step, with no task.
C12_LocalGlobalSteal ==
    [][\A w \in WorkerIds :
          /\ (wpc[w] = "loop" /\ wpc'[w] # "loop") => wpc'[w] \in {"fw_local", "exited"}
          /\ (wpc[w] = "fw_local" /\ workers_lock[w] = NoOwner /\ wpc'[w] # "fw_local")
                => (wpc'[w] = "fw_local_cs" /\ workers_lock'[w] = w)
          /\ (wpc[w] = "fw_local_cs" /\ workers[w] # <<>> /\ wpc'[w] # "fw_local_cs")
                => /\ wtask'[w] = Head(workers[w])
                   /\ workers'[w] = Tail(workers[w])
                   /\ wpc'[w] = "run"
          /\ (wpc'[w] = "fw_global" /\ wpc[w] # "fw_global")
                => \/ wpc[w] = "fw_local" /\ workers_lock[w] # NoOwner
                   \/ wpc[w] = "fw_local_cs" /\ workers[w] = <<>>
          /\ (wpc[w] = "fw_global_cs" /\ global # <<>> /\ wpc'[w] # "fw_global_cs")
                => /\ wtask'[w] = Head(global)
                   /\ global' = Tail(global)
                   /\ wpc'[w] = "run"
          /\ (wpc'[w] = "steal" /\ wpc[w] \notin {"steal", "steal_cs"})
                => /\ wtask'[w] = 0
                   /\ \/ wpc[w] = "fw_global" /\ global_lock # NoOwner
                      \/ wpc[w] = "fw_global_cs" /\ global = <<>>
          /\ (wfrom'[w] = "steal" /\ wfrom[w] # "steal") => wpc[w] = "steal_cs"]_vars

\* One worker runs the front task of its own queue, which still holds a
\* younger task, while another worker runs a task it took from the global queue.
C12_Witness ==
    \E w \in WorkerIds, v \in WorkerIds :
        /\ wpc[w] = "run" /\ wfrom[w] = "local"
        /\ workers[w] # <<>> /\ wtask[w] < Head(workers[w])
        /\ wpc[v] = "run" /\ wfrom[v] = "global"

\* C13: schedule(task) takes worker_id = counter mod num_workers and adds one
\* to the counter; when try_lock on that worker's queue succeeds the task is
\* appended to the back of that queue, otherwise to the back of the global
\* queue; no other queue changes in the call.
C13_RoundRobinPush ==
    [][/\ (cpc = "schedule" /\ cpc' # "schedule")
            => /\ next_worker' = next_worker + 1
               /\ ctarget' = next_worker % num_workers
               /\ cpc' = IF workers_lock[ctarget'] = NoOwner THEN "sc_local_cs" ELSE "sc_global"
               /\ workers_lock[ctarget'] = NoOwner => workers_lock'[ctarget'] = ClientId
               /\ UNCHANGED <<global, workers>>
       /\ (cpc = "sc_local_cs" /\ cpc' # "sc_local_cs")
            => /\ workers' = [workers EXCEPT ![ctarget] = Append(workers[ctarget], ctask)]
               /\ UNCHANGED <<global, next_worker>>
       /\ (cpc = "sc_global" /\ cpc' # "sc_global")
            => UNCHANGED <<global, workers, next_worker>>
       /\ (cpc = "sc_global_cs" /\ cpc' # "sc_global_cs")
            => /\ global' = Append(global, ctask)
               /\ UNCHANGED <<workers, next_worker>>]_vars

\* Three calls on two workers: task 1 went to the queue of worker 0, task 2
\* found the queue of worker 1 locked and went to the global queue, and task 3
\* came round to worker 0 again, behind task 1.
C13_Witness ==
    /\ num_workers = 2 /\ next_worker = 3 /\ cpc = "idle"
    /\ workers[0] = <<1, 3>>
    /\ global = <<2>>

\* The submitter is inside Mutex::lock on the global queue while another
\* thread holds that mutex: its next step waits for the holder to release.
SubmitterWaits == cpc = "sc_global" /\ global_lock # NoOwner

\* C14: every queue access of the scheduler is a try_lock with a fallback, so
\* the thread calling schedule never waits for a queue lock that another
\* thread holds.
C14_SubmitterNeverWaits == ~SubmitterWaits

\* C15: a local queue is first-in first-out for its owner.  The client pushes
\* tasks in the order of their numbers, so every local queue lists its tasks
\* in push order, and when find_work(w) returns a task from w's own queue,
\* every task left in that queue was pushed after it.
C15_LocalFifo ==
    /\ [](\A w \in WorkerIds : \A i, j \in 1..Len(workers[w]) :
             i < j => workers[w][i] < workers[w][j])
    /\ [][\A w \in WorkerIds :
            (wtask[w] = 0 /\ wtask'[w] # 0 /\ wfrom'[w] = "local") =>
                \A k \in 1..Len(workers'[w]) : wtask'[w] < workers'[w][k]]_vars

\* Worker 0 has run task 1 and now runs task 3, both from its own queue,
\* while worker 1 is busy with task 2 from its own queue.
C15_Witness ==
    /\ num_workers = 2
    /\ ran[1] = 1
    /\ wtask[0] = 3 /\ wfrom[0] = "local"
    /\ wtask[1] = 2 /\ wfrom[1] = "local"

\* C16: the future of yield_now() suspends exactly once: its first poll
\* returns Pending and its second poll returns Ready, whatever the clock, the
\* timer thread and the other executors did in between.
C16_YieldSuspendsOnce ==
    \A f \in Futures :
        (prog[f].kind # "none" /\ LeafKind(f) = "yield") =>
            lpolls[f] \in {<<>>, <<"Pending">>, <<"Pending", "Ready">>}

\* A yield_now() inside timeout: the wake-up of the timeout's timer caused
\* the second poll, which returned Ready.
C16_Witness ==
    \E f \in Futures :
        /\ prog[f].kind = "timeout" /\ prog[f].inner = "yield"
        /\ lpolls[f] = <<"Pending", "Ready">>

\* C17: sleep(d) and sleep_until(t) never resolve early.  The deadline is
\* the creation time plus d, or t; a poll of the sleep future returns Ready
\* exactly when the clock has reached the deadline and Pending before, and a
\* sleep that has resolved did so at or after its deadline.
C17_NeverEarly ==
    /\ [](\A f \in Futures :
            /\ (prog[f].kind = "sleep" /\ epc[f] # "new") => ldeadline[f] = born[f] + prog[f].d
            /\ (prog[f].kind = "sleep_until" /\ epc[f] # "new") => ldeadline[f] = prog[f].d
            /\ (prog[f].kind \in {"sleep", "sleep_until"} /\ out[f] = "Ready")
                  => rtime[f] >= ldeadline[f])
    /\ [][\A f \in Futures :
            (prog[f].kind # "none" /\ LeafKind(f) = "sleep" /\ Len(lpolls'[f]) > Len(lpolls[f]))
                => (lpolls'[f][Len(lpolls'[f])] = "Ready" <=> now >= ldeadline[f])]_vars

\* A sleep inside timeout was polled again before its deadline, by the
\* wake-up of the timeout's timer, and returned Pending again; next to it a
\* plain sleep was woken by its own timer and resolved.
C17_Witness ==
    \E f \in Futures, g \in Futures :
        /\ prog[f].kind = "timeout" /\ prog[f].inner = "sleep"
        /\ lpolls[f] = <<"Pending", "Pending">>
        /\ prog[g].kind = "sleep" /\ out[g] = "Ready"
        /\ lpolls[g] = <<"Pending", "Ready">>

\* C18: timeout(d, op) resolves to Ok only by a poll taken before the
\* deadline (creation time + d), and to Err(TimeoutError) only by a poll
\* taken at or after it.
C18_OkIffBeforeDeadline ==
    \A f \in Futures :
        prog[f].kind = "timeout" =>
            /\ out[f] = "Ok" => rtime[f] < wdeadline[f]
            /\ out[f] = "Err" => rtime[f] >= wdeadline[f]

\* C19: Interval is fixed-phase: the k-th tick() of an Interval created at
\* time start with period p returns start + k*p, and returns it at or after
\* that instant, however late the consumer is.
C19_FixedPhase ==
    \A f \in Futures :
        prog[f].kind = "interval" =>
            \A k \in 1..Len(ticks[f]) :
                /\ ticks[f][k].at = born[f] + k * prog[f].d
                /\ ticks[f][k].seen >= ticks[f][k].at

\* The first tick was taken late, after its boundary had passed, and the
\* second tick has been returned as well.
C19_Witness ==
    \E f \in Futures :
        /\ prog[f].kind = "interval"
        /\ Len(ticks[f]) = 2
        /\ ticks[f][1].seen > ticks[f][1].at

\* C20: within one pass of the timer thread the expired entries are woken in
\* the order (deadline, id): the entries woken so far followed by those
\* still to wake are strictly increasing in (deadline, id), and each wake-up
\* takes the first entry still to wake.
C20_FiresInOrder ==
    /\ [](\A i, j \in 1..(Len(woken) + Len(expired)) :
            i < j =>
                LET a == (woken \o expired)[i]
                    b == (woken \o expired)[j]
                IN \/ a.deadline < b.deadline
                   \/ a.deadline = b.deadline /\ a.id < b.id)
    /\ [][Len(woken') > Len(woken) =>
            /\ woken' = Append(woken, Head(expired))
            /\ unparked'[Head(expired).waker]]_vars

\* One pass that woke three entries: the first has an earlier deadline and a
\* larger id than the second, and the last two have equal deadlines.
C20_Witness ==
    /\ Len(woken) = 3
    /\ woken[1].deadline < woken[2].deadline /\ woken[1].id > woken[2].id
    /\ woken[2].deadline = woken[3].deadline /\ woken[2].id < woken[3].id

\* In how many places the entry with id i is: fetched by an add_timer that
\* has not pushed yet, in the heap, in expired_timers, or woken.
TimerPlaces(i) ==
    Cardinality({f \in Futures : eid[f] = i})
        + Cardinality({e \in timers : e.id = i})
        + Cardinality({k \in 1..Len(expired) : expired[k].id = i})
        + (IF i \in fired THEN 1 ELSE 0)

\* C21: every entry added with add_timer is fired exactly once and never
\* before its deadline: each id handed out is in exactly one place (being
\* pushed, in the heap, popped and waiting to be woken, or woken), an entry
\* leaves the heap only to expired_timers and only when its deadline <= the
\* now of the pass, and a wake-up wakes one popped entry that was not woken
\* before, at a clock that has reached its deadline.
C21_FiredExactlyOnce ==
    /\ [](\A i \in 1..(next_id - 1) : TimerPlaces(i) = 1)
    /\ [][\A e \in timers \ timers' :
            /\ e.deadline <= dnow /\ dnow <= now
            /\ \E k \in 1..Len(expired') : expired'[k] = e]_vars
    /\ [][fired' # fired =>
            /\ expired # <<>>
            /\ Head(expired).id \notin fired
            /\ fired' = fired \cup {Head(expired).id}
            /\ Head(expired).deadline <= now
            /\ unparked'[Head(expired).waker]]_vars

C21_Witness ==
    /\ Cardinality(fired) >= 2
    /\ \A i \in fired : TimerPlaces(i) = 1
    /\ \E e \in timers : e.deadline > now

\* C30: the timer thread drains first and wakes afterwards: the drain step
\* runs with the heap lock held, moves every entry with deadline <= the now
\* of the pass from the heap to expired_timers and releases the lock; while
\* it wakes the popped entries the timer thread does not hold the heap lock.
C30_DrainThenWake ==
    /\ [](dpc = "wake" => timers_lock # DriverId)
    /\ [][dpc = "drain" /\ dpc' = "wake" =>
            /\ timers_lock = DriverId /\ timers_lock' = NoOwner
            /\ \A e \in timers' : e.deadline > dnow
            /\ \A k \in 1..Len(expired') : expired'[k].deadline <= dnow
            /\ timers' \subseteq timers
            /\ timers \ timers' = {expired'[k] : k \in 1..Len(expired')}]_vars
    /\ [][fired' # fired => timers_lock # DriverId /\ timers_lock' = timers_lock]_vars

\* A computation woken in this pass is inside add_timer, about to push to
\* the heap, while the timer thread still has entries of the pass to wake.
C30_Witness ==
    /\ dpc = "wake"
    /\ expired # <<>>
    /\ timers_lock = NoOwner
    /\ \E k \in 1..Len(woken) : epc[woken[k].waker] \in {"lpush", "wpush"}

\* A step of the client inside Runtime::spawn.
SpawnStep ==
    /\ cpc' # cpc
    /\ cpc' = "sp_active" \/ cpc \in {"sp_active", "schedule", "sc_local_cs", "sc_global", "sc_global_cs"}

\* C26: one call of spawn adds one to tasks_spawned, then one to
\* active_tasks, then puts its task into exactly one queue slot and returns;
\* no step of the call invokes a task closure or touches a TaskControl, so
\* the handle of the new task is not finished when spawn returns; a task
\* closure is invoked only by a worker that takes the task out of a queue.
C26_SpawnCountsEnqueuesReturns ==
    /\ [](ctask # 0 => /\ ctask = tasks_spawned /\ Queued(ctask) = 0
                       /\ ran[ctask] = 0 /\ ~completed[ctask] /\ result[ctask] = "None")
    /\ [][SpawnStep =>
            /\ UNCHANGED <<ran, writes, result, completed, wpc, wtask, tasks_completed>>
            /\ tasks_spawned' = tasks_spawned + (IF cpc = "idle" THEN 1 ELSE 0)
            /\ active_tasks' = active_tasks + (IF cpc = "sp_active" THEN 1 ELSE 0)
            /\ cpc = "idle" => ctask' = tasks_spawned'
            /\ cpc = "sp_active" => cpc' = "schedule"
            /\ cpc \in {"idle", "sp_active", "schedule", "sc_global"} => UNCHANGED <<global, workers>>
            /\ cpc \in {"sc_local_cs", "sc_global_cs"} =>
                  /\ cpc' = "idle"
                  /\ \A t \in Tasks : Queued(t)' = Queued(t) + (IF t = ctask THEN 1 ELSE 0)
                  /\ ~completed'[ctask] /\ ran'[ctask] = 0]_vars
    /\ [][\A t \in Tasks : ran'[t] # ran[t] =>
            /\ ran'[t] = ran[t] + 1
            /\ Queued(t) = 1 /\ Queued(t)' = 0
            /\ \E w \in WorkerIds : wpc[w] # "run" /\ wpc'[w] = "run" /\ wtask'[w] = t]_vars

\* spawn has returned MaxTasks handles: both counters stand at MaxTasks and
\* every task waits in a queue, not invoked and not finished.
C26_Witness ==
    /\ cpc = "idle"
    /\ tasks_spawned = MaxTasks /\ active_tasks = MaxTasks
    /\ \A t \in Tasks : Queued(t) = 1 /\ ran[t] = 0 /\ ~completed[t]

\* The queues steal_work(w) has still to inspect when its loop is at index i.
Others(w, i) == {j \in WorkerIds : j >= i /\ j # w}

\* Worker w is inside steal_work, and this step is its own.
InSteal(w) == wpc[w] \in {"steal", "steal_cs"}
StealStep(w) == InSteal(w) /\ (wpc'[w] # wpc[w] \/ wi'[w] # wi[w])

\* The loop of steal_work(w) goes on from index i: to the least queue of
\* Others(w, i), or, when there is none, steal_work returns None.
StealGoesOn(w, i) ==
    IF Others(w, i) = {}
    THEN wpc'[w] = "loop"
    ELSE /\ wpc'[w] = "steal"
         /\ wi'[w] \in Others(w, i) /\ \A k \in Others(w, i) : wi'[w] <= k

C22_TokensUniqueIncreasing ==
    /\ [](\A i, j \in 1..Len(returned) : i # j => returned[i] # returned[j])
    /\ [](\A c, d \in Callers :
            (c # d /\ kpc[c] = "reg" /\ kpc[d] = "reg") => ktoken[c] # ktoken[d])
    /\ [](\A c \in Callers : kpc[c] = "reg" =>
            \A i \in 1..Len(returned) : returned[i] # ktoken[c])
    /\ [][\A c \in Callers : (kpc[c] = "idle" /\ kpc'[c] = "reg") =>
            \A i \in 1..Len(returned) : ktoken'[c] > returned[i]]_vars

\* Two calls ran concurrently and returned in the order opposite to their
\* tokens.
C22_Witness ==
    /\ Len(returned) = 2
    /\ returned[1] > returned[2]

\* The entries the map holds for token t.
Pending_of(t) == {e \in wakers : e.token = t}

\* C23: the map holds at most one waker per token, the one of the last
\* register_waker on that token: the insert leaves exactly the new waker for
\* its token and the other tokens as they were, and the waker invoked for an
\* event is the last one registered for the event's token.
C23_OneWakerLastWins ==
    /\ [](\A t \in Tokens : Cardinality(Pending_of(t)) <= 1)
    /\ [](\A e \in wakers : e.waker = lastreg[e.token])
    /\ [][\A c \in Callers : (kpc[c] = "rw_cs" /\ kpc'[c] # "rw_cs") =>
            /\ {e \in wakers' : e.token = ktoken[c]} = {[token |-> ktoken[c], waker |-> c]}
            /\ \A t \in Tokens \ {ktoken[c]} : {e \in wakers' : e.token = t} = Pending_of(t)]_vars
    /\ [][Len(rwoken') > Len(rwoken) =>
            /\ rwoken' = Append(rwoken, [token |-> Head(events), waker |-> lastreg[Head(events)]])
            /\ \A c \in Callers : (kwoken'[c] /\ ~kwoken[c]) => c = lastreg[Head(events)]]_vars

\* Caller c registered for token t and was replaced by caller d: the event
\* for t woke d, while c is parked, not woken, and in the map no more.
C23_Witness ==
    \E c, d \in Callers, t \in Tokens :
        /\ c # d
        /\ kpc[c] = "parked" /\ ~kwoken[c] /\ rwaker # c
        /\ \A e \in wakers : e.waker # c
        /\ lastreg[t] = d
        /\ \E k \in 1..Len(rwoken) : rwoken[k] = [token |-> t, waker |-> d]

\* C24: for each event the loop processes, the waker registered for the
\* event's token is taken out of the map and invoked once, the other entries
\* staying; when the token has no waker the event is consumed with nothing
\* invoked and the map unchanged; a waker is invoked in no other step, so one
\* registered after the event was consumed waits for the next event.
C24_RemoveAndInvokeOnce ==
    [][/\ (rpc = "remove" /\ rpc' # "remove") =>
            IF Pending_of(Head(events)) # {}
            THEN /\ rpc' = "wake"
                 /\ Pending_of(Head(events)) = {[token |-> Head(events), waker |-> rwaker']}
                 /\ wakers' = wakers \ Pending_of(Head(events))
                 /\ UNCHANGED <<events, kwoken, rwoken>>
            ELSE /\ rpc' = AfterEvent(Tail(events))
                 /\ events' = Tail(events)
                 /\ UNCHANGED <<wakers, kwoken, rwoken>>
       /\ (rpc = "wake" /\ events' # events) =>
            /\ kwoken' = [kwoken EXCEPT ![rwaker] = TRUE]
            /\ rwoken' = Append(rwoken, [token |-> Head(events), waker |-> rwaker])
            /\ events' = Tail(events)
            /\ rpc' = AfterEvent(Tail(events))
            /\ UNCHANGED wakers
       /\ (\E c \in Callers : kwoken'[c] /\ ~kwoken[c]) => rpc = "wake"
       /\ Len(rwoken') > Len(rwoken) => rpc = "wake"]_vars

\* A poll whose events woke a waker is over; an event for token t was
\* dropped before, and the waker registered for t since then is still in
\* the map, not invoked.
C24_Witness ==
    /\ rpc = "check"
    /\ rwoken # <<>>
    /\ \E t \in dropped, c \in Callers :
          /\ [token |-> t, waker |-> c] \in wakers
          /\ kpc[c] = "parked" /\ ~kwoken[c]
          /\ \A k \in 1..Len(rwoken) : rwoken[k].token # t

\* C25: once the shutdown flag is set the reactor thread leaves its loop
\* within one iteration: the next test of the loop condition ends the loop,
\* every way out of poll (error, timeout, events) leads to that test, at most
\* one poll returns after the flag was set, and the thread does exit.
C25_ExitsWithinOneIteration ==
    /\ [](rafter <= 1)
    /\ [][(rpc = "check" /\ rshutdown /\ rpc' # rpc) => rpc' = "exited"]_vars
    /\ [][(rpc = "poll" /\ (rpc' # rpc \/ rafter' # rafter)) =>
            (rpc' = "check" \/ (rpc' = "lock" /\ events' # <<>>))]_vars
    /\ [][(rpc' = "poll" /\ rpc # "poll") => (rpc = "check" /\ ~rshutdown)]_vars
    /\ (rshutdown ~> rpc = "exited")

\* The flag was set while the thread was inside poll; that poll returned
\* events, a waker was invoked for one of them, and the thread has exited.
C25_Witness ==
    /\ rpc = "exited"
    /\ rafter = 1
    /\ rwoken # <<>>

\* C29: the reactor invokes a waker outside the lock of its waker map: when
\* the loop is at waker.wake(), the reactor thread does not hold the mutex.
C29_WakeOutsideLock == rpc = "wake" => wakers_lock # ReactorId

\* C27: block_on returns only after the handle of its task reports finished,
\* and returns the task's outcome; on a runtime whose worker threads all stay
\* alive, a block_on of a computation that returns does return.
C27_BlockOnReturns ==
    /\ [][\A t \in Tasks : bout'[t] # bout[t] =>
            (bo = t /\ is_finished(t) /\ bout'[t] = try_result(t))]_vars
    /\ \A t \in Tasks :
          (bo = t /\ body[t].kind = "ret") ~> (bout[t] # "none")

\* Runtime::stats: three relaxed loads, packed into a RuntimeStats value.
stats ==
    [tasks_spawned |-> tasks_spawned,
     tasks_completed |-> tasks_completed,
     active_tasks |-> active_tasks]

\* A worker thread is inside the closure of task t.
Running(t) == \E w \in WorkerIds : wtask[w] = t /\ wpc[w] \notin {"dead", "exited"}

\* No spawn call is under way and no task is queued or running.
NothingQueuedOrRunning ==
    /\ cpc \in {"idle", "join", "down"}
    /\ \A t \in Tasks : Queued(t) = 0 /\ ~Running(t)

\* C38: the statistics counters stay ordered under every interleaving of
\* spawn and task completion: tasks_completed <= tasks_spawned and
\* active_tasks >= 0 in every state, and when no task is queued or running
\* active_tasks = tasks_spawned - tasks_completed = 0.
C38_CountersOrdered ==
    /\ stats.tasks_completed <= stats.tasks_spawned
    /\ stats.active_tasks >= 0
    /\ NothingQueuedOrRunning =>
          /\ stats.active_tasks = 0
          /\ stats.tasks_spawned - stats.tasks_completed = 0

\* The threads are scheduled as in FairSpec, and the thread inside
\* Runtime::shutdown goes on once worker.join() can return.
StopSpec ==
    /\ FairSpec
    /\ WF_vars(cpc = "join" /\ Shutdown(ClientId))

\* Worker w is inside find_work; w starts a task (find_work returned Some).
InFindWork(w) ==
    wpc[w] \in {"fw_local", "fw_local_cs", "fw_global", "fw_global_cs", "steal", "steal_cs"}
StartsTask(w) == wpc[w] # "run" /\ wpc'[w] = "run"
Joined == \A w \in WorkerIds : wpc[w] \in {"exited", "dead"}

\* C35 as stated: once Runtime::shutdown has set the flag no worker starts a
\* new task; every worker exits once its current task returns and shutdown
\* returns after joining the workers, provided no task runs forever.
C35_NoNewTaskAfterFlag ==
    /\ [][\A w \in WorkerIds : shutdown => ~StartsTask(w)]_vars
    /\ [](cpc = "down" => Joined)
    /\ (cpc = "join" ~> (cpc = "down" \/ \E w \in WorkerIds : wpc[w] = "parked"))

\* C35, amended: the flag is read once per iteration, at the loop test, and
\* find_work is entered only from a loop test that read it unset; the worker
\* comes back to the loop test after every task and every empty search and
\* exits at the first test that reads the flag set.  A worker that was inside
\* find_work when the flag was set may therefore still start the one task
\* that call returns.  shutdown returns only after every worker thread has
\* ended, and it does return unless a task never returns.
C35_ExitsAtNextLoopTest ==
    /\ [][\A w \in WorkerIds :
            /\ (wpc[w] = "loop" /\ wpc'[w] # "loop") =>
                   wpc'[w] = (IF shutdown THEN "exited" ELSE "fw_local")
            /\ (wpc'[w] = "fw_local" /\ wpc[w] # "fw_local") => (wpc[w] = "loop" /\ ~shutdown)
            /\ StartsTask(w) => InFindWork(w)
            /\ (InFindWork(w) /\ ~InFindWork(w)') => wpc'[w] \in {"run", "loop"}
            /\ (wpc[w] = "stat_active" /\ wpc'[w] # "stat_active") => wpc'[w] = "loop"
            /\ wpc[w] = "exited" => wpc'[w] = "exited"]_vars
    /\ [](cpc = "down" => Joined)
    /\ (cpc = "join" ~> (cpc = "down" \/ \E w \in WorkerIds : wpc[w] = "parked"))

\* shutdown has returned: every worker has exited, one of them after
\* finishing a task, and a task is still queued.
C35_Witness ==
    /\ cpc = "down"
    /\ \A w \in WorkerIds : wpc[w] = "exited"
    /\ tasks_completed >= 1
    /\ \E t \in Tasks : Queued(t) = 1

\* The flag is set and no worker is inside find_work.
NoSearch == shutdown /\ \A w \in WorkerIds : ~InFindWork(w)

\* C40 as stated: a task that is queued once the shutdown flag is set is
\* never dequeued and never completed, its handle never reports finished
\* and tasks_completed stays strictly below tasks_spawned.
C40_QueuedNeverRun ==
    /\ [][\A t \in Tasks : (shutdown /\ Queued(t) = 1) =>
                               (Queued(t)' = 1 /\ ~completed'[t])]_vars
    /\ [](\A t \in Tasks : (shutdown /\ Queued(t) = 1) =>
                               (~is_finished(t) /\ tasks_completed < tasks_spawned))

\* C40, amended: a worker that is inside find_work when the flag is set can
\* still dequeue and run one task.  Once the flag is set and no worker is
\* inside find_work, no worker enters it again, and every task then queued
\* stays in its queue, is never invoked and never completed, its handle
\* never reports finished, and tasks_completed is strictly below
\* tasks_spawned.
C40_QueuedAfterLastSearchNeverRun ==
    /\ [][NoSearch => NoSearch']_vars
    /\ [][\A t \in Tasks : (NoSearch /\ Queued(t) = 1) =>
                               (Queued(t)' = 1 /\ ~completed'[t] /\ ran'[t] = 0)]_vars
    /\ [](\A t \in Tasks : (NoSearch /\ Queued(t) = 1) =>
                               (~is_finished(t) /\ ran[t] = 0 /\ tasks_completed < tasks_spawned))

\* shutdown has returned while one task was completed and another one is
\* left in a queue, not finished.
C40_Witness ==
    /\ cpc = "down"
    /\ NoSearch
    /\ \E t \in Tasks : Queued(t) = 1 /\ ~is_finished(t)
    /\ \E t \in Tasks : completed[t]

\* Computations that await a plain sleep, sleep_until or yield_now: the
\* steps of their executors.
await(f) == Create(f) \/ LeafPoll(f) \/ LeafPush(f) \/ Unpark(f)

AwaitInit == TimeInit /\ prog[1].kind \in {"sleep", "sleep_until", "yield"}

AwaitNext ==
    \/ Advance
    \/ run
    \/ \E f \in 1..MaxFutures : await(f)

\* The clock goes on, the timer thread keeps running its loop, and every
\* executor thread is scheduled.  The executor's steps are strongly fair: its
\* one blocking acquire, the timers.lock() of add_timer, is of a mutex the
\* timer thread holds for one step of each pass and releases again.
AwaitSpec ==
    /\ AwaitInit /\ [][AwaitNext]_vars
    /\ WF_vars(Advance)
    /\ WF_vars(run)
    /\ \A f \in 1..MaxFutures : SF_vars(await(f))

\* C33: a computation that awaits yield_now(), with no timer registered for
\* it, is polled again and proceeds past the await.
C33_YieldTerminates ==
    \A f \in Futures : (prog[f].kind = "yield" /\ epc[f] = "new") ~> epc[f] = "done"

\* The computation of executor f is a plain sleep(d) or sleep_until(t).
Sleeping(f) == prog[f].kind \in {"sleep", "sleep_until"}

\* C32: a computation suspended on sleep(d) or sleep_until(t) is resumed once
\* the deadline has passed: the future registers one timer entry, on its
\* first Pending poll; the pass of the timer thread that reads a clock at or
\* after the deadline pops and wakes the entry; the poll after the wake-up
\* returns Ready.
C32_SleepResumes ==
    /\ [](\A f \in Futures : Sleeping(f) =>
            /\ Cardinality({e \in timers : e.waker = f}) <= 1
            /\ lpolls[f] \in {<<>>, <<"Ready">>, <<"Pending">>, <<"Pending", "Ready">>}
            /\ (ltimer[f] # 0 \/ eid[f] # 0) => (lpolls[f] # <<>> /\ lpolls[f][1] = "Pending")
            /\ epc[f] = "parked" => (ltimer[f] # 0 /\ TimerPlaces(ltimer[f]) = 1)
            /\ unparked[f] => (ltimer[f] \in fired /\ now >= ldeadline[f]))
    /\ [][(dpc = "drain" /\ dpc' = "wake") =>
            \A e \in timers : e.deadline <= dnow =>
                \E k \in 1..Len(expired') : expired'[k] = e]_vars
    /\ \A f \in Futures :
          (Sleeping(f) /\ epc[f] = "parked" /\ now >= ldeadline[f]) ~> out[f] = "Ready"

\* A sleep was polled before its deadline, parked, was woken by the timer
\* thread and returned Ready from its second poll.
C32_Witness ==
    \E f \in Futures :
        /\ Sleeping(f)
        /\ lpolls[f] = <<"Pending", "Ready">>
        /\ ltimer[f] \in fired
        /\ out[f] = "Ready"

\* The computation of executor f is timeout(d, op), and it has resolved.
Resolved(f) == prog[f].kind = "timeout" /\ out[f] \in {"Ok", "Err"}

\* C34: the timer entry registered by timeout is never retracted: an entry
\* leaves the heap only in a pass of the timer thread whose clock has reached
\* its deadline, also when the inner future has won; a wake-up that comes
\* after the timeout has resolved changes neither its outcome nor the
\* TaskControls nor the runtime counters.
C34_EntryNeverRetracted ==
    /\ [](\A f \in Futures : (Resolved(f) /\ wtimer[f] # 0) => TimerPlaces(wtimer[f]) = 1)
    /\ [][\A e \in timers \ timers' : dpc = "drain" /\ e.deadline <= dnow]_vars
    /\ [][\A f \in Futures : Resolved(f) =>
            /\ out'[f] = out[f] /\ rtime'[f] = rtime[f] /\ epc'[f] = "done"
            /\ wtimer'[f] = wtimer[f]]_vars
    /\ [][fired' # fired => UNCHANGED <<stateStats, stateControl, out, rtime>>]_vars

\* The inner future won, and the entry of the timeout fired afterwards, at
\* its own deadline: the stale wake-up is left in the executor's flag.
C34_Witness ==
    \E f \in Futures :
        /\ out[f] = "Ok"
        /\ wtimer[f] \in fired
        /\ rtime[f] < wdeadline[f]
        /\ unparked[f]

\* C31: a caller suspended on Reactor::wait_for_io(token) registers its
\* waker by the first poll of the future only, and once the reactor has seen
\* the token ready and invoked the waker, the poll that follows resolves the
\* future, so that the wrapper's loop retries the operation.
C31_WaitResolves ==
    /\ [](\A c \in Callers : (kio[c] # 0 /\ kpc[c] = "parked") => registered[c])
    /\ [][\A c \in Callers : (kio[c] # 0 /\ kwoken[c] /\ ~kwoken'[c]) => kio'[c] = 0]_vars
    /\ \A c \in Callers : (kio[c] # 0 /\ kwoken[c]) ~> kio[c] = 0

\* No contention: while a worker is inside find_work it is the only one
\* there, and no other thread holds a queue lock.
Quiet ==
    /\ Cardinality({w \in WorkerIds : InFindWork(w)}) <= 1
    /\ \A w \in WorkerIds : InFindWork(w) =>
          /\ global_lock \in {NoOwner, w}
          /\ \A i \in WorkerIds : workers_lock[i] \in {NoOwner, w}

\* The runtime scheduled so that find_work never meets contention: a thread
\* that would take a queue lock during another thread's find_work, or begin
\* a find_work while a queue lock is held, runs later.  The other steps take
\* no lock and begin no find_work.
QuietNext ==
    \/ \E w \in 0..(MaxWorkers - 1) : WorkerLoop(w) /\ Quiet'
    \/ \E w \in 0..(MaxWorkers - 1) : FwLocalTry(w) /\ Quiet'
    \/ \E w \in 0..(MaxWorkers - 1) : FwGlobalTry(w) /\ Quiet'
    \/ \E w \in 0..(MaxWorkers - 1) : StealTry(w) /\ Quiet'
    \/ \E w \in 0..(MaxWorkers - 1) : FwLocalPop(w) \/ FwGlobalPop(w) \/ StealPop(w) \/ task(w)
    \/ ScheduleTry(ClientId) /\ Quiet'
    \/ ScheduleLockGlobal(ClientId) /\ Quiet'
    \/ SpawnCount(ClientId)
    \/ SpawnActive(ClientId)
    \/ SchedulePushLocal(ClientId)
    \/ SchedulePushGlobal(ClientId)
    \/ \E t \in Tasks : TryResult(t)
    \/ Shutdown(ClientId)

QuietSpec == Init /\ [][QuietNext]_vars

AllQueuesEmpty == global = <<>> /\ \A i \in WorkerIds : workers[i] = <<>>

\* C39: without lock contention find_work(w) returns a task if and only if
\* some queue, global or local, is non-empty: the queues do not change
\* during the call except by the pop of the call itself, find_work returns
\* None only when every queue is empty, and it returns Some by taking a task
\* out of a non-empty queue.  A call that returns None leaves every queue as
\* it was.
C39_FindWorkIffQueued ==
    /\ [](Quiet)
    /\ [][\A w \in WorkerIds : (InFindWork(w) /\ InFindWork(w)') =>
            UNCHANGED <<global, workers>>]_vars
    /\ [][\A w \in WorkerIds : (InFindWork(w) /\ wpc'[w] = "loop") =>
            (AllQueuesEmpty /\ UNCHANGED <<global, workers>>)]_vars
    /\ [][\A w \in WorkerIds : (InFindWork(w) /\ wpc'[w] = "run") =>
            /\ ~AllQueuesEmpty
            /\ \E t \in Tasks : wtask'[w] = t /\ Queued(t) = 1 /\ Queued(t)' = 0]_vars

\* With its own queue and the global queue empty, a worker got its task from
\* the local queue of the other worker.
C39_Witness ==
    \E w \in WorkerIds :
        /\ wpc[w] = "run"
        /\ wfrom[w] = "steal"
        /\ \E v \in WorkerIds : v # w /\ wpc[v] = "loop" /\ ran[wtask[w]] = 1

\* A step of has_work, and a step in which it returns v.
HasWorkStep == <<hpc, hi, hret>>' # <<hpc, hi, hret>>
HasWorkReturns(v) == hpc # "idle" /\ hpc' = "idle" /\ hret' = v

\* C37: has_work returns true only from a look at a non-empty queue whose
\* lock it holds; it holds a lock only between a successful try_lock and the
\* look at that queue; no step of it changes a queue, the round-robin
\* counter, a counter of the statistics or a TaskControl.
C37_HasWorkProbesOnly ==
    /\ [][HasWorkReturns("true") =>
            \/ hpc = "hw_global_cs" /\ global_lock = ProbeId /\ global # <<>>
            \/ hpc = "hw_worker_cs" /\ workers_lock[hi] = ProbeId /\ workers[hi] # <<>>]_vars
    /\ [][HasWorkStep =>
            UNCHANGED <<global, workers, next_worker, stateStats, stateControl>>]_vars
    /\ [](global_lock = ProbeId <=> hpc = "hw_global_cs")
    /\ [](\A i \in WorkerIds : workers_lock[i] = ProbeId <=> (hpc = "hw_worker_cs" /\ hi = i))

\* has_work has just returned false although a task is queued: the queue
\* that holds it is locked by another thread.
C37_Witness ==
    /\ hpc = "idle"
    /\ hret = "false"
    /\ \/ global # <<>> /\ global_lock \notin {NoOwner, ProbeId}
       \/ \E i \in WorkerIds : workers[i] # <<>> /\ workers_lock[i] \notin {NoOwner, ProbeId}
    /\ \A i \in WorkerIds : workers[i] = <<>> \/ workers_lock[i] # NoOwner
    /\ global = <<>> \/ global_lock # NoOwner

\* C36: idle back-off is bounded.  The counter stays within 0..MAX_IDLE; a
\* worker yields only with a count below MAX_IDLE, at most MAX_IDLE - 1 times
\* in a row, and sleeps when the count is MAX_IDLE; the count is 0 after the
\* sleep and after every task; after the yield, the sleep or the task the
\* worker is back at the loop test, and from there it calls find_work again
\* unless the runtime is shut down.
C36_BackoffBounded ==
    /\ [](\A w \in WorkerIds :
            /\ idle_count[w] \in 0..MAX_IDLE
            /\ yields[w] \in 0..(MAX_IDLE - 1)
            /\ ipc[w] = "yield" => idle_count[w] \in 1..(MAX_IDLE - 1)
            /\ ipc[w] = "sleep" => (idle_count[w] = MAX_IDLE /\ yields[w] = MAX_IDLE - 1)
            /\ ipc[w] \in {"test", "find"} => idle_count[w] = yields[w])
    /\ [][\A w \in WorkerIds :
            /\ (ipc[w] \in {"sleep", "task"} /\ ipc'[w] # ipc[w]) =>
                   (idle_count'[w] = 0 /\ ipc'[w] = "test")
            /\ (ipc[w] = "yield" /\ ipc'[w] # ipc[w]) => ipc'[w] = "test"
            /\ (ipc[w] = "test" /\ ipc'[w] # ipc[w]) =>
                   ipc'[w] = (IF shutdown THEN "exited" ELSE "find")]_vars
    /\ \A w \in 0..(MaxWorkers - 1) :
          (Thread(w) /\ ipc[w] \in {"count", "yield", "sleep", "task"})
              ~> (Thread(w) /\ ipc[w] \in {"find", "exited"})

\* A worker is asleep after MAX_IDLE empty searches in a row while the other
\* one, back from a task, has a count of 0.
C36_Witness ==
    \E w, v \in WorkerIds :
        /\ ipc[w] = "sleep" /\ idle_count[w] = MAX_IDLE
        /\ v # w /\ ipc[v] = "test" /\ idle_count[v] = 0 /\ ipc[w] # ipc[v]
====
